---- MODULE Spec2Model ----
(***************************************************************************)
(* Verification model of the document-to-structured-data pipeline:         *)
(*   app/utils/text_utils.py        clean_text, estimate_tokens,           *)
(*                                  truncate_text, combine_extracted_texts *)
(*   app/services/extractor.py      _get_extension, is_allowed_extension,  *)
(*                                  extract_text                           *)
(*   app/services/json_extractor.py parse_llm_json                         *)
(*   app/routers/analyze.py         analyze_documents                      *)
(* Texts and filenames are sequences of one-character strings, so that     *)
(* slicing, searching and length are computed as the Python code does.     *)
(***************************************************************************)
EXTENDS Integers, Sequences, FiniteSets, TLC

\* ------------------------------------------------------------------------
\* Bounds of the model
\* ------------------------------------------------------------------------

\* longest text handed to truncate_text by the text harness
MaxTextLen == 11

\* largest token budget tried by the text harness
MaxBudget == 2

\* ------------------------------------------------------------------------
\* Python helpers on sequences of characters
\* ------------------------------------------------------------------------

MinOf(S) == CHOOSE x \in S : \A y \in S : x <= y

MaxOf(S) == 0 - MinOf({0 - x : x \in S})

\* s[:n] for n >= 0
Prefix(s, n) == SubSeq(s, 1, IF n < Len(s) THEN n ELSE Len(s))

\* s.rfind(c): 0-based index of the last c, -1 when there is none
rfind(s, c) ==
    LET I == {i \in 1..Len(s) : s[i] = c}
    IN IF I = {} THEN -1 ELSE MaxOf(I) - 1

\* n copies of the character c
Fill(n, c) == [i \in 1..n |-> c]

DigitChars == <<"0", "1", "2", "3", "4", "5", "6", "7", "8", "9">>

RECURSIVE Digits(_)
\* str(n) for n >= 0, as used by the f-string of the truncation notice
Digits(n) ==
    IF n < 10 THEN <<DigitChars[n + 1]>>
    ELSE Digits(n \div 10) \o <<DigitChars[(n % 10) + 1]>>

\* ------------------------------------------------------------------------
\* app/utils/text_utils.py
\* ------------------------------------------------------------------------

\* characters matched by [^\S\n]: whitespace other than newline
IsHSpace(c) == c \in {" ", "\t", "\r"}

IsSpace(c) == c \in {" ", "\t", "\n", "\r"}

RECURSIVE CollapseHSpace(_)
\* re.sub(r"[^\S\n]+", " ", text)
CollapseHSpace(s) ==
    IF s = <<>> THEN <<>>
    ELSE IF IsHSpace(Head(s))
         THEN LET J == {j \in 1..Len(s) : ~IsHSpace(s[j])}
                  k == IF J = {} THEN Len(s) + 1 ELSE MinOf(J)
              IN <<" ">> \o CollapseHSpace(SubSeq(s, k, Len(s)))
         ELSE <<Head(s)>> \o CollapseHSpace(Tail(s))

RECURSIVE CollapseNewlines(_)
\* re.sub(r"\n{3,}", "\n\n", text)
CollapseNewlines(s) ==
    IF s = <<>> THEN <<>>
    ELSE IF Head(s) = "\n"
         THEN LET J == {j \in 1..Len(s) : s[j] # "\n"}
                  k == IF J = {} THEN Len(s) + 1 ELSE MinOf(J)
                  run == k - 1
              IN (IF run >= 3 THEN <<"\n", "\n">> ELSE Fill(run, "\n"))
                 \o CollapseNewlines(SubSeq(s, k, Len(s)))
         ELSE <<Head(s)>> \o CollapseNewlines(Tail(s))

\* str.strip()
Strip(s) ==
    LET J == {j \in 1..Len(s) : ~IsSpace(s[j])}
    IN IF J = {} THEN <<>> ELSE SubSeq(s, MinOf(J), MaxOf(J))

\* returns the text without trimming it
clean_text_no_strip(text) == CollapseNewlines(CollapseHSpace(text))

clean_text(text) == Strip(CollapseNewlines(CollapseHSpace(text)))

\* rounds to the nearest integer
estimate_tokens_rounded(text) ==
    IF text = <<>> THEN 0 ELSE (2 * Len(text) + 3) \div 7

\* int(len(text) / 3.5), 0 for the empty text
estimate_tokens(text) ==
    IF text = <<>> THEN 0 ELSE (2 * Len(text)) \div 7

\* the notice truncate_text appends; its letters are abstracted to "W",
\* its two leading newlines and the two numbers are kept
TruncationNotice(current_tokens, max_tokens) ==
    <<"\n", "\n">> \o Fill(63, "W") \o Fill(22, "W") \o Digits(current_tokens)
    \o Fill(10, "W") \o Fill(7, "W") \o Digits(max_tokens) \o Fill(10, "W")

\* backs off also to a newline at exactly 80% of the target
truncate_text_at_or_after(text, max_tokens) ==
    LET current_tokens == estimate_tokens(text)
        target_chars   == (7 * max_tokens) \div 2
        truncated      == Prefix(text, target_chars)
        last_newline   == rfind(truncated, "\n")
        kept           == IF 5 * last_newline >= 4 * target_chars
                          THEN Prefix(truncated, last_newline)
                          ELSE truncated
    IN IF current_tokens <= max_tokens
       THEN [text |-> text, flag |-> FALSE]
       ELSE [text |-> kept \o TruncationNotice(current_tokens, max_tokens),
             flag |-> TRUE]

truncate_text(text, max_tokens) ==
    LET current_tokens == estimate_tokens(text)
        target_chars   == (7 * max_tokens) \div 2
        truncated      == Prefix(text, target_chars)
        last_newline   == rfind(truncated, "\n")
        kept           == IF 5 * last_newline > 4 * target_chars
                          THEN Prefix(truncated, last_newline)
                          ELSE truncated
    IN IF current_tokens <= max_tokens
       THEN [text |-> text, flag |-> FALSE]
       ELSE [text |-> kept \o TruncationNotice(current_tokens, max_tokens),
             flag |-> TRUE]

\* "=== FILE: {filename} ===\n{text}" parts joined by "\n\n", in dict order;
\* file_texts is a sequence of [key, val] entries (an insertion-ordered dict)
RECURSIVE JoinParts(_)
JoinParts(parts) ==
    IF parts = <<>> THEN <<>>
    ELSE IF Len(parts) = 1 THEN parts[1]
    ELSE parts[1] \o <<"\n", "\n">> \o JoinParts(Tail(parts))

FileHeader(filename) ==
    <<"=", "=", "=", " ", "F", "I", "L", "E", ":", " ">> \o filename
    \o <<" ", "=", "=", "=", "\n">>

combine_extracted_texts(ft) ==
    JoinParts([i \in DOMAIN ft |-> FileHeader(ft[i].key) \o ft[i].val])

\* ------------------------------------------------------------------------
\* Python dict (insertion ordered) as a sequence of [key, val] entries
\* ------------------------------------------------------------------------

DictHas(d, k) == \E i \in DOMAIN d : d[i].key = k

\* d[k] = v: a new key is appended, an existing key keeps its position
DictSet(d, k, v) ==
    IF DictHas(d, k)
    THEN [i \in DOMAIN d |-> IF d[i].key = k THEN [key |-> k, val |-> v] ELSE d[i]]
    ELSE Append(d, [key |-> k, val |-> v])

\* list(d.keys())
DictKeys(d) == [i \in DOMAIN d |-> d[i].key]

\* ------------------------------------------------------------------------
\* app/services/extractor.py
\* ------------------------------------------------------------------------

UpperChars == <<"A", "B", "C", "D", "E", "F", "G", "H", "I", "J", "K", "L", "M",
                "N", "O", "P", "Q", "R", "S", "T", "U", "V", "W", "X", "Y", "Z">>

LowerChars == <<"a", "b", "c", "d", "e", "f", "g", "h", "i", "j", "k", "l", "m",
                "n", "o", "p", "q", "r", "s", "t", "u", "v", "w", "x", "y", "z">>

\* str.lower() on one character
LowerChar(c) ==
    IF \E i \in 1..26 : UpperChars[i] = c
    THEN LowerChars[CHOOSE i \in 1..26 : UpperChars[i] = c]
    ELSE c

lower(s) == [i \in DOMAIN s |-> LowerChar(s[i])]

\* allows the older Word format as well
ALLOWED_EXTENSIONS_with_doc ==
    { <<".", "p", "d", "f">>, <<".", "p", "n", "g">>, <<".", "j", "p", "g">>,
      <<".", "j", "p", "e", "g">>, <<".", "x", "l", "s", "x">>,
      <<".", "d", "o", "c", "x">>, <<".", "d", "o", "c">> }

ALLOWED_EXTENSIONS ==
    { <<".", "p", "d", "f">>, <<".", "p", "n", "g">>, <<".", "j", "p", "g">>,
      <<".", "j", "p", "e", "g">>, <<".", "x", "l", "s", "x">>,
      <<".", "d", "o", "c", "x">> }

IMAGE_EXTENSIONS ==
    { <<".", "p", "n", "g">>, <<".", "j", "p", "g">>, <<".", "j", "p", "e", "g">> }

_get_extension(filename) ==
    LET dot_idx == rfind(filename, ".")
    IN IF dot_idx = -1 THEN <<>>
       ELSE lower(SubSeq(filename, dot_idx + 1, Len(filename)))

is_allowed_extension(filename) == _get_extension(filename) \in ALLOWED_EXTENSIONS

\* The format extractors (PyMuPDF, PaddleOCR, openpyxl, python-docx) are
\* libraries: what they return for a file's bytes is the field `raw` of the
\* content, and `ok = FALSE` is a content on which the extractor raises.
FormatExtractor(ext, content) ==
    IF content.ok THEN [ok |-> TRUE, text |-> content.raw, error |-> "none"]
    ELSE [ok |-> FALSE, text |-> <<>>, error |-> "extractor raised"]

\* extract_text: the outcome is [ok, text, error]; ok = FALSE is an exception
extract_text(filename, content) ==
    LET ext == _get_extension(filename)
        raw == IF ext = <<".", "p", "d", "f">> THEN FormatExtractor("pdf", content)
               ELSE IF ext \in IMAGE_EXTENSIONS THEN FormatExtractor("image", content)
               ELSE IF ext = <<".", "x", "l", "s", "x">> THEN FormatExtractor("excel", content)
               ELSE IF ext = <<".", "d", "o", "c", "x">> THEN FormatExtractor("docx", content)
               ELSE [ok |-> FALSE, text |-> <<>>, error |-> "Unsupported file extension"]
    IN IF raw.ok THEN [ok |-> TRUE, text |-> clean_text(raw.text), error |-> "none"]
       ELSE raw

\* ------------------------------------------------------------------------
\* json.loads on a sequence of characters.  Modelled grammar: objects,
\* arrays, strings without escapes, numbers -?digits(.digits)?, null, true,
\* false, whitespace between tokens.  A parsed value is a record
\*   [type, str, num, members]
\* whose type is Python's type(x).__name__; a dict's or list's members are
\* [key, val] entries in insertion order.
\* ------------------------------------------------------------------------

DigitSet == {"0", "1", "2", "3", "4", "5", "6", "7", "8", "9"}

DigitVal(c) == CHOOSE d \in 0..9 : DigitChars[d + 1] = c

\* a decimal number (-1)^neg * mant / 10^scale, normalised
Zero == [neg |-> FALSE, mant |-> 0, scale |-> 0]

RECURSIVE NormDec(_)
NormDec(d) ==
    IF d.mant = 0 THEN Zero
    ELSE IF d.scale > 0 /\ d.mant % 10 = 0
         THEN NormDec([neg |-> d.neg, mant |-> d.mant \div 10, scale |-> d.scale - 1])
         ELSE d

NegDec(d) == NormDec([neg |-> ~d.neg, mant |-> d.mant, scale |-> d.scale])

RECURSIVE DigitsToNat(_)
DigitsToNat(ds) ==
    IF ds = <<>> THEN 0
    ELSE 10 * DigitsToNat(SubSeq(ds, 1, Len(ds) - 1)) + DigitVal(ds[Len(ds)])

JNone == [type |-> "NoneType", str |-> <<>>, num |-> Zero, members |-> <<>>]

JStr(chars) == [type |-> "str", str |-> chars, num |-> Zero, members |-> <<>>]

JBool(b) ==
    [type |-> "bool", str |-> <<>>,
     num |-> [neg |-> FALSE, mant |-> IF b THEN 1 ELSE 0, scale |-> 0],
     members |-> <<>>]

JInt(d) == [type |-> "int", str |-> <<>>, num |-> d, members |-> <<>>]

JFloat(d) == [type |-> "float", str |-> <<>>, num |-> d, members |-> <<>>]

JDict(entries) == [type |-> "dict", str |-> <<>>, num |-> Zero, members |-> entries]

\* sys.float_info.max has 309 digits: an int of more digits is beyond the
\* range of float
FloatMaxDigits == 309

\* an int literal of more than FloatMaxDigits digits, kept as its digits
JBigInt(digits) == [type |-> "int", str |-> digits, num |-> Zero, members |-> <<>>]

JList(entries) == [type |-> "list", str |-> <<>>, num |-> Zero, members |-> entries]

JsonFail == [ok |-> FALSE, val |-> JNone, next |-> 0]

IsJsonWs(c) == c \in {" ", "\t", "\n", "\r"}

\* first index >= i that holds no whitespace (Len(s) + 1 when there is none)
SkipWs(s, i) ==
    LET J == {j \in i..Len(s) : ~IsJsonWs(s[j])}
    IN IF J = {} THEN Len(s) + 1 ELSE MinOf(J)

\* the longest run of digits of s starting at index i
DigitRun(s, i) ==
    LET J == {j \in i..Len(s) : s[j] \notin DigitSet}
        e == IF J = {} THEN Len(s) + 1 ELSE MinOf(J)
    IN SubSeq(s, i, e - 1)

\* first index >= i that holds no regex-\s character (whitespace as str.strip
\* and the regex class \s see it, here space, tab, newline, carriage return)
SkipWsAll(s, i) == SkipWs(s, i)

StartsWith(s, i, word) ==
    /\ i + Len(word) - 1 <= Len(s)
    /\ SubSeq(s, i, i + Len(word) - 1) = word

ParseString(s, i) ==
    LET J == {j \in (i + 1)..Len(s) : s[j] = "\""}
    IN IF J = {} THEN JsonFail
       ELSE [ok |-> TRUE, val |-> JStr(SubSeq(s, i + 1, MinOf(J) - 1)),
             next |-> MinOf(J) + 1]

ParseNumber(s, i) ==
    LET neg   == s[i] = "-"
        i1    == IF neg THEN i + 1 ELSE i
        ip    == DigitRun(s, i1)
        i2    == i1 + Len(ip)
        frac  == IF i2 <= Len(s) /\ s[i2] = "." THEN DigitRun(s, i2 + 1) ELSE <<>>
        isflt == i2 <= Len(s) /\ s[i2] = "."
    IN IF ip = <<>> \/ (Len(ip) > 1 /\ ip[1] = "0") \/ (isflt /\ frac = <<>>)
       THEN JsonFail
       ELSE IF isflt
            THEN [ok |-> TRUE,
                  val |-> JFloat(NormDec([neg |-> neg, mant |-> DigitsToNat(ip \o frac),
                                          scale |-> Len(frac)])),
                  next |-> i2 + 1 + Len(frac)]
            ELSE IF Len(ip) > FloatMaxDigits
                 THEN [ok |-> TRUE, val |-> JBigInt(ip), next |-> i2]
            ELSE [ok |-> TRUE,
                  val |-> JInt(NormDec([neg |-> neg, mant |-> DigitsToNat(ip), scale |-> 0])),
                  next |-> i2]

RECURSIVE ParseValue(_, _), ParseMembers(_, _, _), ParseItems(_, _, _)

\* the members of an object after "{" or ",": "key" : value, then "," or "}"
ParseMembers(s, i, acc) ==
    LET k == SkipWs(s, i)
    IN IF k > Len(s) \/ s[k] # "\"" THEN JsonFail
       ELSE LET key == ParseString(s, k)
                c   == SkipWs(s, key.next)
            IN IF ~key.ok \/ c > Len(s) \/ s[c] # ":" THEN JsonFail
               ELSE LET v == ParseValue(s, SkipWs(s, c + 1))
                        e == SkipWs(s, v.next)
                        acc2 == DictSet(acc, key.val.str, v.val)
                    IN IF ~v.ok \/ e > Len(s) THEN JsonFail
                       ELSE IF s[e] = "}"
                            THEN [ok |-> TRUE, val |-> JDict(acc2), next |-> e + 1]
                       ELSE IF s[e] = "," THEN ParseMembers(s, e + 1, acc2)
                       ELSE JsonFail

\* the items of an array after "[" or ","
ParseItems(s, i, acc) ==
    LET v == ParseValue(s, SkipWs(s, i))
        e == SkipWs(s, v.next)
        acc2 == Append(acc, [key |-> <<>>, val |-> v.val])
    IN IF ~v.ok \/ e > Len(s) THEN JsonFail
       ELSE IF s[e] = "]" THEN [ok |-> TRUE, val |-> JList(acc2), next |-> e + 1]
       ELSE IF s[e] = "," THEN ParseItems(s, e + 1, acc2)
       ELSE JsonFail

ParseValue(s, i) ==
    IF i > Len(s) THEN JsonFail
    ELSE IF s[i] = "{"
         THEN LET k == SkipWs(s, i + 1)
              IN IF k <= Len(s) /\ s[k] = "}"
                 THEN [ok |-> TRUE, val |-> JDict(<<>>), next |-> k + 1]
                 ELSE ParseMembers(s, i + 1, <<>>)
    ELSE IF s[i] = "["
         THEN LET k == SkipWs(s, i + 1)
              IN IF k <= Len(s) /\ s[k] = "]"
                 THEN [ok |-> TRUE, val |-> JList(<<>>), next |-> k + 1]
                 ELSE ParseItems(s, i + 1, <<>>)
    ELSE IF s[i] = "\"" THEN ParseString(s, i)
    ELSE IF s[i] = "-" \/ s[i] \in DigitSet THEN ParseNumber(s, i)
    ELSE IF StartsWith(s, i, <<"n", "u", "l", "l">>)
         THEN [ok |-> TRUE, val |-> JNone, next |-> i + 4]
    ELSE IF StartsWith(s, i, <<"t", "r", "u", "e">>)
         THEN [ok |-> TRUE, val |-> JBool(TRUE), next |-> i + 4]
    ELSE IF StartsWith(s, i, <<"f", "a", "l", "s", "e">>)
         THEN [ok |-> TRUE, val |-> JBool(FALSE), next |-> i + 5]
    ELSE JsonFail

\* json.loads(s): ok = FALSE is json.JSONDecodeError
json_loads(s) ==
    LET r == ParseValue(s, SkipWs(s, 1))
    IN IF r.ok /\ SkipWs(s, r.next) = Len(s) + 1
       THEN [ok |-> TRUE, val |-> r.val]
       ELSE [ok |-> FALSE, val |-> JNone]

\* ------------------------------------------------------------------------
\* app/services/json_extractor.py
\* ------------------------------------------------------------------------

K_balance_start == <<"b", "a", "l", "a", "n", "c", "e", "_", "s", "t", "a", "r", "t">>

K_balance_end == <<"b", "a", "l", "a", "n", "c", "e", "_", "e", "n", "d">>

K_income_current == <<"i", "n", "c", "o", "m", "e", "_", "c", "u", "r", "r", "e", "n", "t">>

K_company_name == <<"c", "o", "m", "p", "a", "n", "y", "_", "n", "a", "m", "e">>

K_period == <<"p", "e", "r", "i", "o", "d">>

REQUIRED_KEYS == {K_balance_start, K_balance_end, K_income_current}

\* the order in which parse_llm_json walks the three sections
SectionOrder == <<K_balance_start, K_balance_end, K_income_current>>

\* code-point order of the characters that occur in dictionary keys
AsciiOrder == DigitChars \o UpperChars \o <<"_">> \o LowerChars

Ord(c) == CHOOSE i \in 1..Len(AsciiOrder) : AsciiOrder[i] = c

\* a < b for Python strings
StrLess(a, b) ==
    \E i \in 1..(Len(a) + 1) :
        /\ i <= Len(b)
        /\ \A j \in 1..(i - 1) : a[j] = b[j]
        /\ (i = Len(a) + 1 \/ Ord(a[i]) < Ord(b[i]))

RECURSIVE sorted(_)
\* sorted(S) for a set of strings
sorted(S) ==
    IF S = {} THEN <<>>
    ELSE LET m == CHOOSE x \in S : \A y \in S \ {x} : StrLess(x, y)
         IN <<m>> \o sorted(S \ {m})

RECURSIVE JoinComma(_)
\* ", ".join(parts)
JoinComma(parts) ==
    IF parts = <<>> THEN <<>>
    ELSE IF Len(parts) = 1 THEN parts[1]
    ELSE parts[1] \o <<",", " ">> \o JoinComma(Tail(parts))

\* first index >= i at which word occurs in s, 0 when it does not
FindFrom(s, i, word) ==
    LET J == {j \in i..Len(s) : StartsWith(s, j, word)}
    IN IF J = {} THEN 0 ELSE MinOf(J)

\* the backtick character (U+0060), which a TLA+ string cannot hold
Backtick == "BACKTICK"

Fence == <<Backtick, Backtick, Backtick>>

\* depth of the brace scan after the character at index i, the scan having
\* started at index first with depth 0
BraceDepth(s, first, i) ==
    Cardinality({j \in first..i : s[j] = "{"})
    - Cardinality({j \in first..i : s[j] = "}"})

\* the index of the "}" at which the depth of the scan started at index first
\* returns to 0; 0 when it never does
BraceEnd(s, first) ==
    LET J == {i \in first..Len(s) : s[i] = "}" /\ BraceDepth(s, first, i) = 0}
    IN IF J = {} THEN 0 ELSE MinOf(J)

\* _extract_json_block: ok = FALSE is ExtractionError (no "{" found).
\* re.search(r"```(?:json)?\s*\n?(.*?)\n?```", text, re.DOTALL) matches from
\* the first fence that has a later fence after it; group 1 runs from the end
\* of the optional tag and the whitespace after it to the next fence.
_extract_json_block(raw) ==
    LET text  == Strip(raw)
        open  == FindFrom(text, 1, Fence)
        tag   == IF open > 0 /\ StartsWith(text, open + 3, <<"j", "s", "o", "n">>)
                 THEN open + 7 ELSE open + 3
        body  == IF open > 0 THEN SkipWsAll(text, tag) ELSE 0
        close == IF open > 0 THEN FindFrom(text, body, Fence) ELSE 0
        first_brace == FindFrom(text, 1, <<"{">>)
        last  == BraceEnd(text, first_brace)
    IN IF open > 0 /\ close > 0
       THEN [ok |-> TRUE, text |-> Strip(SubSeq(text, body, close - 1))]
       ELSE IF first_brace = 0 THEN [ok |-> FALSE, text |-> <<>>]
       ELSE IF last > 0 THEN [ok |-> TRUE, text |-> SubSeq(text, first_brace, last)]
       ELSE [ok |-> TRUE, text |-> SubSeq(text, first_brace, Len(text))]

NoFloat == [some |-> FALSE, num |-> Zero]

\* float(s) for a string: [+-]digits[.digits] or [+-].digits; ValueError
\* (some = FALSE) otherwise
float_of_str(s) ==
    LET signed == s # <<>> /\ s[1] \in {"-", "+"}
        i1   == IF signed THEN 2 ELSE 1
        ip   == DigitRun(s, i1)
        i2   == i1 + Len(ip)
        dot  == i2 <= Len(s) /\ s[i2] = "."
        frac == IF dot THEN DigitRun(s, i2 + 1) ELSE <<>>
        end  == IF dot THEN i2 + 1 + Len(frac) ELSE i2
    IN IF s = <<>> \/ (ip = <<>> /\ frac = <<>>) \/ end # Len(s) + 1
       THEN NoFloat
       ELSE [some |-> TRUE,
             num |-> NormDec([neg |-> signed /\ s[1] = "-",
                              mant |-> DigitsToNat(ip \o frac),
                              scale |-> Len(frac)])]

\* the no-break space (U+00A0)
Nbsp == "NBSP"

\* s.replace(",", ".").replace(" ", "").replace(" ", "")
NormalizeSeparators(s) ==
    LET commas == [i \in DOMAIN s |-> IF s[i] = "," THEN "." ELSE s[i]]
    IN SelectSeq(commas, LAMBDA c : c \notin {" ", Nbsp})

RECURSIVE str_to_float(_)
\* the isinstance(val, str) branch of _to_float
str_to_float(val) ==
    LET s == Strip(val)
    IN IF s = <<>> \/ s = <<"-">> \/ lower(s) = <<"n", "u", "l", "l">>
          \/ lower(s) = <<"n", "o", "n", "e">>
       THEN NoFloat
       ELSE IF Len(s) >= 3 /\ s[1] = "(" /\ s[Len(s)] = ")"
               /\ \A i \in 2..(Len(s) - 1) : s[i] # "\n"
            THEN LET inner == str_to_float(SubSeq(s, 2, Len(s) - 1))
                 IN IF inner.some THEN [some |-> TRUE, num |-> NegDec(inner.num)]
                    ELSE NoFloat
       ELSE float_of_str(NormalizeSeparators(s))

\* _to_float: some = FALSE is None
_to_float(val) ==
    IF val.type \in {"int", "float", "bool"} THEN [some |-> TRUE, num |-> val.num]
    ELSE IF val.type = "str" THEN str_to_float(val.str)
    ELSE NoFloat

\* float(val) raises OverflowError: the int is too large to convert
FloatOverflows(val) == val.type = "int" /\ Len(val.str) > FloatMaxDigits

\* the Cyrillic letter er (U+0440), the row-marker prefix of a code
CyrEr == "CYR_ER"

\* re.sub(r"^CyrEr\.?", "", k)
StripRowMarker(k) ==
    IF k # <<>> /\ k[1] = CyrEr
    THEN IF Len(k) >= 2 /\ k[2] = "." THEN SubSeq(k, 3, Len(k)) ELSE Tail(k)
    ELSE k

\* takes the empty key for a code
isdigit_or_empty(k) == \A i \in DOMAIN k : k[i] \in DigitSet

\* str.isdigit()
isdigit(k) == k # <<>> /\ \A i \in DOMAIN k : k[i] \in DigitSet

RECURSIVE NormalizeEntries(_, _)
NormalizeEntries(entries, result) ==
    IF entries = <<>> THEN result
    ELSE LET k       == Strip(StripRowMarker(Strip(entries[1].key)))
             numeric == _to_float(entries[1].val)
         IN IF ~isdigit(k) THEN NormalizeEntries(Tail(entries), result)
            ELSE IF numeric.some
                 THEN NormalizeEntries(Tail(entries),
                                       DictSet(result, k, JFloat(numeric.num)))
                 ELSE NormalizeEntries(Tail(entries), result)

\* _normalize_section raises OverflowError: _to_float is reached (the key is
\* a code) with an int beyond the range of float
SectionOverflows(section) ==
    \E i \in DOMAIN section.members :
       /\ isdigit(Strip(StripRowMarker(Strip(section.members[i].key))))
       /\ FloatOverflows(section.members[i].val)

\* _normalize_section: the dict of code -> float
_normalize_section(section) == JDict(NormalizeEntries(section.members, <<>>))

\* d.get(k, default)
DictGet(d, k, default) ==
    IF DictHas(d, k) THEN d[CHOOSE i \in DOMAIN d : d[i].key = k].val ELSE default

\* d.setdefault(k, default)
DictSetDefault(d, k, default) == IF DictHas(d, k) THEN d ELSE DictSet(d, k, default)

\* ExtractionError(kind) with the variable part of its message
ParseError(kind, msg) == [ok |-> FALSE, data |-> <<>>, error |-> kind, msg |-> msg]

\* "Невідома компанія" and the dash, the placeholders of step 5
DefaultCompany == JStr(<<"?", "c", "o", "m", "p", "a", "n", "y">>)

DefaultPeriod == JStr(<<"-">>)

RECURSIVE NormalizeSections(_, _)
\* step 4: for key in (...): type check, then data[key] = _normalize_section
NormalizeSections(data, keys) ==
    IF keys = <<>> THEN [ok |-> TRUE, data |-> data, error |-> "none", msg |-> <<>>]
    ELSE LET section == DictGet(data, keys[1], JDict(<<>>))
         IN IF section.type # "dict" THEN ParseError("section_not_object", keys[1])
            ELSE IF SectionOverflows(section) THEN ParseError("overflow_error", keys[1])
            ELSE NormalizeSections(DictSet(data, keys[1], _normalize_section(section)),
                                   Tail(keys))

\* reports one missing key only
MissingKeys_one_only(data) ==
    LET missing == REQUIRED_KEYS \ {data[i].key : i \in DOMAIN data}
    IN IF missing = {} THEN {} ELSE {CHOOSE k \in missing : TRUE}

\* the keys REQUIRED_KEYS - set(data.keys())
MissingKeys(data) == REQUIRED_KEYS \ {data[i].key : i \in DOMAIN data}

\* steps 3 to 5 of parse_llm_json, on the parsed top-level dict
ValidateAndNormalize(data) ==
    LET missing == MissingKeys(data)
        norm    == NormalizeSections(data, SectionOrder)
    IN IF missing # {} THEN ParseError("missing_keys", JoinComma(sorted(missing)))
       ELSE IF ~norm.ok THEN norm
       ELSE [ok |-> TRUE,
             data |-> DictSetDefault(DictSetDefault(norm.data, K_company_name, DefaultCompany),
                                     K_period, DefaultPeriod),
             error |-> "none", msg |-> <<>>]

\* parse_llm_json: ok = FALSE is an exception, ExtractionError unless the
\* error is "overflow_error" (the OverflowError of float(val))
parse_llm_json(raw_response) ==
    LET block  == _extract_json_block(raw_response)
        parsed == json_loads(block.text)
    IN IF raw_response = <<>> \/ Strip(raw_response) = <<>> THEN ParseError("empty", <<>>)
       ELSE IF ~block.ok THEN ParseError("no_json_object", <<>>)
       ELSE IF ~parsed.ok THEN ParseError("json_decode", <<>>)
       ELSE IF parsed.val.type # "dict" THEN ParseError("not_object", <<>>)
       ELSE ValidateAndNormalize(parsed.val.members)

\* ------------------------------------------------------------------------
\* app/routers/analyze.py: the request handler analyze_documents
\* ------------------------------------------------------------------------

MAX_FILES == 10

\* most files of an upload whose files are drawn freely from FileKinds
MaxFiles == 3

VARIABLES
    files,              \* the uploaded files, in upload order: [filename, content]
    config,             \* [max_upload_size_mb, max_total_tokens_estimate]
    pc,                 \* the stage the handler is at
    total_size,         \* running byte total of ReadFiles
    file_data,          \* list of [filename, content] read so far
    file_texts,         \* dict filename -> text (insertion ordered)
    failed_files,       \* list of [filename, error]
    combined_text,
    tokens_estimated,
    was_truncated,
    raw_json_response,
    extracted_data,
    calc_result,
    report_html,
    response,           \* the HTTP response, status_code = 0 while there is none
    read_calls,         \* number of f.read() calls made
    extract_calls,      \* filenames extract_text was called with, in call order
    json_calls,         \* number of query_ollama_json calls issued
    report_calls,       \* number of query_ollama_report calls issued
    calc_calls,         \* number of calculate_all calls made
    stages,             \* the stages run so far, in order
    tu,                 \* the text-utility harness
    pj                  \* the parser harness

pipeline_vars ==
    <<files, config, pc, total_size, file_data, file_texts, failed_files,
      combined_text, tokens_estimated, was_truncated, raw_json_response,
      extracted_data, calc_result, report_html, response, read_calls,
      extract_calls, json_calls, report_calls, calc_calls, stages>>

vars == <<pipeline_vars, tu, pj>>

\* ---- inputs ----

N_a_pdf == <<"a", ".", "p", "d", "f">>

N_b_PNG == <<"b", ".", "P", "N", "G">>

N_c_txt == <<"c", ".", "t", "x", "t">>

FileNames == {N_a_pdf, N_b_PNG, N_c_txt}

\* file contents: the byte size, and what the format extractor makes of them
C_small == [size |-> 300000, ok |-> TRUE, raw |-> <<"a", " ", " ", "b">>]

C_big == [size |-> 600000, ok |-> TRUE,
          raw |-> <<"x", "\n", "\n", "\n", "y", "\t", "z", "\n", "w", " ">>]

C_bad == [size |-> 300000, ok |-> FALSE, raw |-> <<>>]

C_tiny == [size |-> 1000, ok |-> TRUE, raw |-> <<"t">>]

Contents == {C_small, C_big, C_bad}

FileKinds == [filename : FileNames, content : Contents]

RECURSIVE SeqsUpTo(_, _)
\* the sequences over S of length at most n
SeqsUpTo(S, n) ==
    IF n = 0 THEN {<<>>}
    ELSE LET shorter == SeqsUpTo(S, n - 1)
         IN shorter \cup {Append(q, x) : q \in {r \in shorter : Len(r) = n - 1}, x \in S}

\* an upload of n small files with pairwise different names (n <= 10)
LongUpload(n) ==
    [i \in 1..n |-> [filename |-> <<DigitChars[(i % 10) + 1]>> \o <<".", "p", "d", "f">>,
                     content |-> C_tiny]]

Uploads ==
    SeqsUpTo(FileKinds, MaxFiles) \cup {LongUpload(MAX_FILES), LongUpload(MAX_FILES + 1)}

TokenBudgets == {8, 1000}

Configs == [max_upload_size_mb : {1}, max_total_tokens_estimate : TokenBudgets]

R_good == <<"R", "e", "s", "u", "l", "t", ":", "\n", Backtick, Backtick, Backtick, "j", "s", "o", "n", "\n", "{", "\"", "c", "o", "m", "p", "a", "n", "y", "_", "n", "a", "m", "e", "\"", ":", "\"", "X", "\"", ",", "\"", "b", "a", "l", "a", "n", "c", "e", "_", "s", "t", "a", "r", "t", "\"", ":", "{", "\"", "1", "1", "9", "5", "\"", ":", "\"", "7", "3", "2", ",", "8", "\"", "}", ",", "\"", "b", "a", "l", "a", "n", "c", "e", "_", "e", "n", "d", "\"", ":", "{", "\"", "1", "1", "9", "5", "\"", ":", "\"", "(", "1", "5", "0", ".", "5", ")", "\"", ",", "\"", "1", "9", "0", "0", "\"", ":", "\"", "-", "\"", "}", ",", "\"", "i", "n", "c", "o", "m", "e", "_", "c", "u", "r", "r", "e", "n", "t", "\"", ":", "{", "\"", "2", "0", "0", "0", "\"", ":", "1", "2", "}", "}", "\n", Backtick, Backtick, Backtick>>

R_missing == <<"{", "\"", "b", "a", "l", "a", "n", "c", "e", "_", "e", "n", "d", "\"", ":", "{", "}", ",", "\"", "i", "n", "c", "o", "m", "e", "_", "c", "u", "r", "r", "e", "n", "t", "\"", ":", "{", "}", "}", " ", "d", "o", "n", "e">>

\* a dataset whose code 1000 holds an int of 310 digits
R_huge == <<"{", "\"", "b", "a", "l", "a", "n", "c", "e", "_", "s", "t", "a", "r", "t", "\"", ":", "{", "\"", "1", "0", "0", "0", "\"", ":">> \o Fill(FloatMaxDigits + 1, "1") \o <<"}", ",", "\"", "b", "a", "l", "a", "n", "c", "e", "_", "e", "n", "d", "\"", ":", "{", "}", ",", "\"", "i", "n", "c", "o", "m", "e", "_", "c", "u", "r", "r", "e", "n", "t", "\"", ":", "{", "}", "}">>

\* raw_json_response[:1000]
PreviewLen == 1000

\* prose without any object, longer than the preview
R_long == Fill(PreviewLen + 1, "x")

\* the message of the Ollama reply: its content, and its thinking field
OllamaMessages ==
    {[content |-> R_good, thinking |-> <<>>],
     [content |-> R_missing, thinking |-> <<"h", "m">>],
     [content |-> R_huge, thinking |-> <<>>],
     [content |-> R_long, thinking |-> <<>>],
     [content |-> <<>>, thinking |-> <<"h", "m">>],
     [content |-> <<>>, thinking |-> <<>>]}

\* _send_ollama_request after the reply arrived: message.get("content", ""),
\* returned whether it is empty or not
_send_ollama_request(message) == message.content

\* what the structuring call may return: a fenced dataset, an object that
\* lacks a required key, a dataset with an int beyond float, long prose, and
\* the empty content of a reasoning-only reply
RawResponses == {_send_ollama_request(m) : m \in OllamaMessages}

ReportTexts == {<<"r", "\n", "s">>}

\* ---- state ----

NoResponse ==
    [status_code |-> 0, status |-> "none", detail |-> "none",
     failed_files |-> <<>>, has_failed_files |-> FALSE, has_warning |-> FALSE,
     files_processed |-> <<>>, tokens_estimated |-> 0, report |-> <<>>,
     extracted_data |-> <<>>, raw_response_preview |-> <<>>]

NoCalc == [company_name |-> JNone, period |-> JNone]

HandlerState(at) ==
    /\ pc = at
    /\ total_size = 0
    /\ file_data = <<>>
    /\ file_texts = <<>>
    /\ failed_files = <<>>
    /\ combined_text = <<>>
    /\ tokens_estimated = 0
    /\ was_truncated = FALSE
    /\ raw_json_response = <<>>
    /\ extracted_data = <<>>
    /\ calc_result = NoCalc
    /\ report_html = <<>>
    /\ response = NoResponse
    /\ read_calls = 0
    /\ extract_calls = <<>>
    /\ json_calls = 0
    /\ report_calls = 0
    /\ calc_calls = 0
    /\ stages = <<>>

NoHarness == [pc |-> "off"]

Init ==
    /\ files \in Uploads
    /\ config \in Configs
    /\ HandlerState("Validate")
    /\ tu = NoHarness
    /\ pj = NoHarness

\* raise HTTPException(status_code, detail): the handler ends
Fail(code, detail, ff, preview) ==
    /\ pc' = "Failed"
    /\ response' = [NoResponse EXCEPT !.status_code = code, !.status = "error",
                                      !.detail = detail, !.failed_files = ff,
                                      !.raw_response_preview = preview]

\* f.filename or default
FilenameOr(f, default) == IF f.filename = <<>> THEN default ELSE f.filename

Unknown == <<"u", "n", "k", "n", "o", "w", "n">>

\* ---- stages ----

FileCountOk_off_by_one(n) == ~(n < 1 \/ n > MAX_FILES + 1)

\* line 87: the negation of len(files) < 1 or len(files) > MAX_FILES
FileCountOk(n) == ~(n < 1 \/ n > MAX_FILES)

RunningTotal_last_file_only(total, size) == size

\* line 108: total_size += len(content)
RunningTotal(total, size) == total + size

NoTexts_never(ft) == FALSE

\* line 128: not file_texts
NoTexts(ft) == ft = <<>>

ParseRaised_never(parsed) == FALSE

\* lines 177-179: whether parse_llm_json raised ExtractionError
ParseRaised(parsed) == ~parsed.ok

\* lines 86-99: file count, then every filename's extension
Validate ==
    /\ pc = "Validate"
    /\ stages' = Append(stages, "Validate")
    /\ IF ~FileCountOk(Len(files))
       THEN Fail(400, "file_count", <<>>, <<>>)
       ELSE IF \E i \in DOMAIN files : ~is_allowed_extension(FilenameOr(files[i], <<>>))
            THEN Fail(422, "unsupported_file_type", <<>>, <<>>)
            ELSE pc' = "ReadFiles" /\ UNCHANGED response
    /\ UNCHANGED <<files, config, total_size, file_data, file_texts, failed_files,
                   combined_text, tokens_estimated, was_truncated, raw_json_response,
                   extracted_data, calc_result, report_html, read_calls, extract_calls,
                   json_calls, report_calls, calc_calls, tu, pj>>

\* lines 101-114: one iteration of the read loop
ReadFile ==
    /\ pc = "ReadFiles"
    /\ LET f        == files[Len(file_data) + 1]
           max_size == config.max_upload_size_mb * 1024 * 1024
           total    == RunningTotal(total_size, f.content.size)
       IN /\ read_calls' = read_calls + 1
          /\ total_size' = total
          /\ IF total > max_size
             THEN /\ Fail(413, "upload_too_large", <<>>, <<>>)
                  /\ UNCHANGED file_data
             ELSE /\ file_data' = Append(file_data,
                                         [filename |-> FilenameOr(f, Unknown),
                                          content |-> f.content])
                  /\ pc' = IF Len(file_data) + 1 = Len(files)
                           THEN "ExtractPerFile" ELSE "ReadFiles"
                  /\ UNCHANGED response
    /\ stages' = IF read_calls = 0 THEN Append(stages, "ReadFiles") ELSE stages
    /\ UNCHANGED <<files, config, file_texts, failed_files, combined_text,
                   tokens_estimated, was_truncated, raw_json_response, extracted_data,
                   calc_result, report_html, extract_calls, json_calls, report_calls,
                   calc_calls, tu, pj>>

\* the extraction loop without its try/except: the first failing file ends
\* the request with an unhandled exception
ExtractFile_no_except ==
    /\ pc = "ExtractPerFile"
    /\ LET fd  == file_data[Len(extract_calls) + 1]
           out == extract_text(fd.filename, fd.content)
       IN /\ extract_calls' = Append(extract_calls, fd.filename)
          /\ IF out.ok
             THEN /\ file_texts' = DictSet(file_texts, fd.filename, out.text)
                  /\ pc' = IF Len(extract_calls) + 1 = Len(file_data)
                           THEN "Combine" ELSE "ExtractPerFile"
                  /\ UNCHANGED response
             ELSE /\ Fail(500, "internal_server_error", <<>>, <<>>)
                  /\ UNCHANGED file_texts
    /\ stages' = IF extract_calls = <<>> THEN Append(stages, "ExtractPerFile") ELSE stages
    /\ UNCHANGED <<files, config, total_size, file_data, failed_files, combined_text,
                   tokens_estimated, was_truncated, raw_json_response, extracted_data,
                   calc_result, report_html, read_calls, json_calls,
                   report_calls, calc_calls, tu, pj>>

\* lines 116-126: one iteration of the extraction loop
ExtractFile ==
    /\ pc = "ExtractPerFile"
    /\ LET fd  == file_data[Len(extract_calls) + 1]
           out == extract_text(fd.filename, fd.content)
       IN /\ extract_calls' = Append(extract_calls, fd.filename)
          /\ IF out.ok
             THEN /\ file_texts' = DictSet(file_texts, fd.filename, out.text)
                  /\ UNCHANGED failed_files
             ELSE /\ failed_files' = Append(failed_files,
                                            [filename |-> fd.filename, error |-> out.error])
                  /\ UNCHANGED file_texts
          /\ pc' = IF Len(extract_calls) + 1 = Len(file_data)
                   THEN "Combine" ELSE "ExtractPerFile"
    /\ stages' = IF extract_calls = <<>> THEN Append(stages, "ExtractPerFile") ELSE stages
    /\ UNCHANGED <<files, config, total_size, file_data, combined_text,
                   tokens_estimated, was_truncated, raw_json_response, extracted_data,
                   calc_result, report_html, response, read_calls, json_calls,
                   report_calls, calc_calls, tu, pj>>

\* lines 128-145: at least one text, then combine and truncate
Combine ==
    /\ pc = "Combine"
    /\ stages' = Append(stages, "Combine")
    /\ IF NoTexts(file_texts)
       THEN /\ Fail(422, "all_extractions_failed", failed_files, <<>>)
            /\ UNCHANGED <<combined_text, tokens_estimated, was_truncated>>
       ELSE LET combined == combine_extracted_texts(file_texts)
                estimate == estimate_tokens(combined)
                cut      == truncate_text(combined, config.max_total_tokens_estimate)
            IN /\ IF estimate > config.max_total_tokens_estimate
                  THEN /\ combined_text' = cut.text
                       /\ was_truncated' = cut.flag
                       /\ tokens_estimated' = estimate_tokens(cut.text)
                  ELSE /\ combined_text' = combined
                       /\ was_truncated' = FALSE
                       /\ tokens_estimated' = estimate
               /\ pc' = "StructuringCall"
               /\ UNCHANGED response
    /\ UNCHANGED <<files, config, total_size, file_data, file_texts, failed_files,
                   raw_json_response, extracted_data, calc_result, report_html,
                   read_calls, extract_calls, json_calls, report_calls, calc_calls,
                   tu, pj>>

\* lines 153-174: load the extraction prompt, then query_ollama_json
StructuringCall ==
    /\ pc = "StructuringCall"
    /\ stages' = Append(stages, "StructuringCall")
    /\ \/ \* _load_prompt raises RuntimeError
          /\ Fail(500, "extraction_prompt_error", <<>>, <<>>)
          /\ UNCHANGED <<raw_json_response, json_calls>>
       \/ \* the call raises (network error, timeout, non-2xx status)
          /\ json_calls' = json_calls + 1
          /\ Fail(500, "data_extraction_failed", <<>>, <<>>)
          /\ UNCHANGED raw_json_response
       \/ \* the call returns the content of the reply, which may be empty
          /\ json_calls' = json_calls + 1
          /\ raw_json_response' \in RawResponses
          /\ pc' = "RepairParse"
          /\ UNCHANGED response
    /\ UNCHANGED <<files, config, total_size, file_data, file_texts, failed_files,
                   combined_text, tokens_estimated, was_truncated, extracted_data,
                   calc_result, report_html, read_calls, extract_calls, report_calls,
                   calc_calls, tu, pj>>

\* lines 176-187: parse_llm_json on the raw reply
RepairParse ==
    /\ pc = "RepairParse"
    /\ stages' = Append(stages, "RepairParse")
    /\ LET parsed == parse_llm_json(raw_json_response)
       IN IF parsed.error = "overflow_error"
          THEN \* not an ExtractionError: no except clause catches it
               /\ Fail(500, "internal_server_error", <<>>, <<>>)
               /\ UNCHANGED extracted_data
          ELSE IF ParseRaised(parsed)
          THEN /\ Fail(500, "parse_failed", <<>>, Prefix(raw_json_response, PreviewLen))
               /\ UNCHANGED extracted_data
          ELSE /\ extracted_data' = parsed.data
               /\ pc' = "Calculate"
               /\ UNCHANGED response
    /\ UNCHANGED <<files, config, total_size, file_data, file_texts, failed_files,
                   combined_text, tokens_estimated, was_truncated, raw_json_response,
                   calc_result, report_html, read_calls, extract_calls, json_calls,
                   report_calls, calc_calls, tu, pj>>

\* calculate_all of app/services/financial_calculator.py: it returns a
\* CalculationResult for the dataset or raises
calculate_all(data) ==
    { [ok |-> TRUE,
       result |-> [company_name |-> DictGet(data, K_company_name, JNone),
                   period |-> DictGet(data, K_period, JNone)]],
      [ok |-> FALSE, result |-> NoCalc] }

\* lines 195-199: the calculation engine; an exception it raises is not
\* caught by the handler and ends the request with status 500
Calculate ==
    /\ pc = "Calculate"
    /\ stages' = Append(stages, "Calculate")
    /\ calc_calls' = calc_calls + 1
    /\ \E out \in calculate_all(extracted_data) :
          IF out.ok
          THEN /\ calc_result' = out.result
               /\ pc' = "ReportingCall"
               /\ UNCHANGED response
          ELSE /\ Fail(500, "internal_server_error", <<>>, <<>>)
               /\ UNCHANGED calc_result
    /\ UNCHANGED <<files, config, total_size, file_data, file_texts, failed_files,
                   combined_text, tokens_estimated, was_truncated, raw_json_response,
                   extracted_data, report_html, read_calls, extract_calls, json_calls,
                   report_calls, tu, pj>>

\* lines 207-230: load the report prompt, then query_ollama_report
ReportingCall ==
    /\ pc = "ReportingCall"
    /\ stages' = Append(stages, "ReportingCall")
    /\ \/ \* _load_prompt raises RuntimeError
          /\ Fail(500, "report_prompt_error", <<>>, <<>>)
          /\ UNCHANGED <<report_html, report_calls>>
       \/ \* the call raises
          /\ report_calls' = report_calls + 1
          /\ Fail(500, "report_generation_failed", <<>>, <<>>)
          /\ UNCHANGED report_html
       \/ \* the call returns the report
          /\ report_calls' = report_calls + 1
          /\ report_html' \in ReportTexts
          /\ pc' = "PostProcess"
          /\ UNCHANGED response
    /\ UNCHANGED <<files, config, total_size, file_data, file_texts, failed_files,
                   combined_text, tokens_estimated, was_truncated, raw_json_response,
                   extracted_data, calc_result, read_calls, extract_calls, json_calls,
                   calc_calls, tu, pj>>

RECURSIVE ReplaceNewlines(_)
\* report_html.replace("\n", "<br>\n")
ReplaceNewlines(s) ==
    IF s = <<>> THEN <<>>
    ELSE (IF Head(s) = "\n" THEN <<"<", "b", "r", ">", "\n">> ELSE <<Head(s)>>)
         \o ReplaceNewlines(Tail(s))

\* lines 232-261: post-process the report and build the response
\* attaches the warning to every response
WarningPresent_always(truncated) == TRUE

\* lines 258-259: if was_truncated: response["warning"] = ...
WarningPresent(truncated) == truncated

Respond ==
    /\ pc = "PostProcess"
    /\ stages' = stages \o <<"PostProcess", "Respond">>
    /\ report_html' = ReplaceNewlines(report_html)
    /\ response' = [NoResponse EXCEPT
                       !.status_code = 200,
                       !.status = "success",
                       !.report = ReplaceNewlines(report_html),
                       !.extracted_data = extracted_data,
                       !.files_processed = DictKeys(file_texts),
                       !.tokens_estimated = tokens_estimated,
                       !.has_failed_files = failed_files # <<>>,
                       !.failed_files = failed_files,
                       !.has_warning = WarningPresent(was_truncated)]
    /\ pc' = "Done"
    /\ UNCHANGED <<files, config, total_size, file_data, file_texts, failed_files,
                   combined_text, tokens_estimated, was_truncated, raw_json_response,
                   extracted_data, calc_result, read_calls, extract_calls, json_calls,
                   report_calls, calc_calls, tu, pj>>

Next ==
    \/ Validate
    \/ ReadFile
    \/ ExtractFile
    \/ Combine
    \/ StructuringCall
    \/ RepairParse
    \/ Calculate
    \/ ReportingCall
    \/ Respond

Spec == Init /\ [][Next]_vars

\* ------------------------------------------------------------------------
\* truncate_text applied to texts drawn from a bounded set, then applied again
\* to its own result at the same budget
\* ------------------------------------------------------------------------

\* no request is being handled
HandlerOff ==
    /\ files = <<>>
    /\ config = [max_upload_size_mb |-> 1, max_total_tokens_estimate |-> 1000]
    /\ HandlerState("off")

TextChars == {"a", "\n"}

Texts == SeqsUpTo(TextChars, MaxTextLen)

NoResult == [text |-> <<>>, flag |-> FALSE]

TextInit ==
    /\ HandlerOff
    /\ pj = NoHarness
    /\ tu \in [pc : {"start"}, text : Texts, max_tokens : 0..MaxBudget,
               first : {NoResult}, second : {NoResult}]

TruncateOnce ==
    /\ tu.pc = "start"
    /\ tu' = [tu EXCEPT !.pc = "once",
                        !.first = truncate_text(tu.text, tu.max_tokens)]
    /\ UNCHANGED <<pipeline_vars, pj>>

TruncateAgain ==
    /\ tu.pc = "once"
    /\ tu' = [tu EXCEPT !.pc = "twice",
                        !.second = truncate_text(tu.first.text, tu.max_tokens)]
    /\ UNCHANGED <<pipeline_vars, pj>>

TextNext ==
    \/ TruncateOnce
    \/ TruncateAgain

TextSpec == TextInit /\ [][TextNext]_vars

\* ------------------------------------------------------------------------
\* parse_llm_json applied to replies built from a choice of top-level keys,
\* section values, key order and wrapping
\* ------------------------------------------------------------------------

S_empty == <<"{", "}">>

S_values == <<"{", "\"", "1", "0", "0", "0", "\"", ":", "\"", "7", "3", "2", ",", "8", "\"", ",", "\"", CyrEr, ".", "1", "1", "9", "5", "\"", ":", "\"", "(", "1", "5", "0", ".", "5", ")", "\"", ",", "\"", "2", "0", "0", "0", "\"", ":", "\"", "-", "\"", ",", "\"", "x", "\"", ":", "1", ",", "\"", "1", "9", "0", "0", "\"", ":", "n", "u", "l", "l", "}">>

S_list == <<"[", "]">>

S_str == <<"\"", "x", "\"">>

S_null == <<"n", "u", "l", "l">>

SectionTexts == {S_empty, S_values, S_list, S_str, S_null}

\* the key is absent from the object
Absent == <<>>

\* what each of the three sections (in SectionOrder) holds
SectionChoices == [1..3 -> SectionTexts \cup {Absent}]

KeyOrders == {<<1, 2, 3>>, <<3, 2, 1>>}

Wraps == {"bare", "fence_json", "fence", "prose"}

Quoted(chars) == <<"\"">> \o chars \o <<"\"">>

RECURSIVE MemberTexts(_, _)
\* the "key":value texts of the chosen sections, in the chosen key order
MemberTexts(choice, order) ==
    IF order = <<>> THEN <<>>
    ELSE IF choice[order[1]] = Absent THEN MemberTexts(choice, Tail(order))
    ELSE <<Quoted(SectionOrder[order[1]]) \o <<":">> \o choice[order[1]]>>
         \o MemberTexts(choice, Tail(order))

RECURSIVE JoinWith(_, _)
JoinWith(parts, sep) ==
    IF parts = <<>> THEN <<>>
    ELSE IF Len(parts) = 1 THEN parts[1]
    ELSE parts[1] \o sep \o JoinWith(Tail(parts), sep)

ObjectText(choice, order) ==
    <<"{">> \o JoinWith(MemberTexts(choice, order), <<",">>) \o <<"}">>

Wrapped(text, wrap) ==
    IF wrap = "fence_json"
    THEN Fence \o <<"j", "s", "o", "n", "\n">> \o text \o <<"\n">> \o Fence
    ELSE IF wrap = "fence" THEN Fence \o <<"\n">> \o text \o Fence
    ELSE IF wrap = "prose"
         THEN <<"D", "a", "t", "a", ":", " ">> \o text \o <<"\n", "o", "k", ".">>
    ELSE text

NoParse == [ok |-> FALSE, data |-> <<>>, error |-> "not_run", msg |-> <<>>]

ParseInit ==
    /\ HandlerOff
    /\ tu = NoHarness
    /\ pj \in [pc : {"start"}, choice : SectionChoices, order : KeyOrders,
               wrap : Wraps, result : {NoParse}]

ParseReply ==
    /\ pj.pc = "start"
    /\ pj' = [pj EXCEPT
                 !.pc = "parsed",
                 !.result = parse_llm_json(Wrapped(ObjectText(pj.choice, pj.order),
                                                   pj.wrap))]
    /\ UNCHANGED <<pipeline_vars, tu>>

ParseNext == ParseReply

ParseSpec == ParseInit /\ [][ParseNext]_vars

\* ------------------------------------------------------------------------
\* Properties of analyze_documents
\* ------------------------------------------------------------------------

Range(q) == {q[i] : i \in DOMAIN q}

RECURSIVE SumSizes(_)
\* the byte total of the first k uploaded files
SumSizes(k) == IF k = 0 THEN 0 ELSE SumSizes(k - 1) + files[k].content.size

\* whether extraction of the i-th uploaded file yields a text
Extracts(i) == extract_text(files[i].filename, files[i].content).ok

AllowedName(i) == _get_extension(files[i].filename) \in ALLOWED_EXTENSIONS

\* C1: an upload whose file count is outside [1, 10] or that holds a filename
\* with an extension outside the allowed set ends in a fatal error (400 for
\* the count, 422 for the extension), and in that execution no file is read,
\* no extraction is attempted and no LLM call is issued.
C1_InvalidUploadFailsBeforeAnyRead ==
    LET badCount == Len(files) < 1 \/ Len(files) > 10
        badExt   == \E i \in DOMAIN files : ~AllowedName(i)
    IN (badCount \/ badExt) =>
          /\ read_calls = 0
          /\ extract_calls = <<>>
          /\ json_calls = 0
          /\ report_calls = 0
          /\ pc \in {"Validate", "Failed"}
          /\ pc = "Failed" => response.status_code = IF badCount THEN 400 ELSE 422

\* a valid file followed by one with a disallowed extension was rejected
C1_Witness ==
    /\ pc = "Failed"
    /\ response.status_code = 422
    /\ Len(files) = 2
    /\ AllowedName(1)
    /\ ~AllowedName(2)

\* C2: files are read in upload order while the byte total accumulates; the
\* read after which the total first exceeds the limit fails the request with
\* 413, later files are never read and nothing is extracted or sent to the
\* LLM; when the total never exceeds the limit every file is read.
C2_ReadFilesFailFast ==
    LET max_size == config.max_upload_size_mb * 1048576
        over     == {k \in 1..Len(files) : SumSizes(k) > max_size}
    IN /\ read_calls <= Len(files)
       /\ Len(file_data) <= read_calls
       /\ \A i \in DOMAIN file_data : file_data[i] = files[i]
       /\ total_size = SumSizes(read_calls)
       /\ \A k \in over : read_calls <= k
       /\ response.status_code = 413 <=> read_calls \in over
       /\ response.status_code = 413 =>
             /\ pc = "Failed"
             /\ extract_calls = <<>>
             /\ json_calls = 0
             /\ report_calls = 0
       /\ (over = {} /\ read_calls > 0 /\ pc # "ReadFiles") =>
             /\ read_calls = Len(files)
             /\ Len(file_data) = Len(files)
             /\ response.status_code # 413

\* the second of three files took the total over the limit
C2_Witness ==
    /\ response.status_code = 413
    /\ read_calls = 2
    /\ Len(files) = 3

RECURSIVE ExpectedFailed(_)
\* the {filename, error} entries of the failing files among the first k read
ExpectedFailed(k) ==
    IF k = 0 THEN <<>>
    ELSE LET out == extract_text(file_data[k].filename, file_data[k].content)
         IN IF out.ok THEN ExpectedFailed(k - 1)
            ELSE Append(ExpectedFailed(k - 1),
                        [filename |-> file_data[k].filename, error |-> out.error])

\* C3: extraction is attempted for every read file in upload order whatever
\* the earlier outcomes; each failure adds one {filename, error} entry to
\* failed_files and neither stops the loop nor aborts the request as long as
\* one file succeeds.
C3_ExtractionContinuesAfterFailure ==
    LET k == Len(extract_calls)
    IN /\ k <= Len(file_data)
       /\ \A i \in 1..k : extract_calls[i] = file_data[i].filename
       /\ failed_files = ExpectedFailed(k)
       /\ (/\ pc \notin {"Validate", "ReadFiles", "ExtractPerFile"}
           /\ response.detail \notin {"file_count", "unsupported_file_type",
                                      "upload_too_large"})
          => k = Len(files)
       /\ (k = Len(files) /\ pc = "Failed" /\ \E i \in DOMAIN files : Extracts(i))
          => response.detail \notin {"all_extractions_failed"}
       /\ (pc = "Failed" /\ k > 0) => k = Len(files)

\* a run through to the response in which the first and the third of three
\* files failed and the second succeeded
C3_Witness ==
    /\ pc = "Done"
    /\ Len(files) = 3
    /\ ~Extracts(1)
    /\ Extracts(2)
    /\ ~Extracts(3)
    /\ Len(failed_files) = 2

\* C4: when extraction fails for every uploaded file the request fails with
\* 422 whose detail carries one failed_files entry per uploaded file in upload
\* order, and no LLM call is issued; the pipeline goes on to combination and
\* the structuring call only when some extraction succeeded.
C4_AllExtractionsFailed ==
    LET allFail == \A i \in DOMAIN files : ~Extracts(i)
    IN /\ response.detail = "all_extractions_failed" =>
             /\ pc = "Failed"
             /\ response.status_code = 422
             /\ allFail
             /\ response.failed_files =
                   [i \in DOMAIN files |->
                       [filename |-> files[i].filename,
                        error |-> extract_text(files[i].filename, files[i].content).error]]
             /\ json_calls = 0
             /\ report_calls = 0
       /\ ("Combine" \in Range(stages) /\ allFail) =>
             response.detail = "all_extractions_failed"
       /\ (pc = "StructuringCall" \/ "StructuringCall" \in Range(stages)
           \/ combined_text # <<>> \/ json_calls > 0)
          => \E i \in DOMAIN files : Extracts(i)

\* two files, both failing
C4_Witness ==
    /\ response.detail = "all_extractions_failed"
    /\ Len(files) = 2
    /\ Len(response.failed_files) = 2

StageOrder ==
    <<"Validate", "ReadFiles", "ExtractPerFile", "Combine", "StructuringCall",
      "RepairParse", "Calculate", "ReportingCall", "PostProcess", "Respond">>

C5_StateInvariant ==
    /\ stages = SubSeq(StageOrder, 1, Len(stages))
    /\ json_calls <= 1
    /\ report_calls <= 1
    /\ calc_calls <= 1
    /\ calc_calls = 1 =>
          /\ json_calls = 1
          /\ parse_llm_json(raw_json_response).ok
          /\ extracted_data = parse_llm_json(raw_json_response).data
    /\ report_calls = 1 =>
          /\ calc_calls = 1
          /\ \E out \in calculate_all(extracted_data) : out.ok /\ calc_result = out.result
    /\ response.status = "success" =>
          /\ pc = "Done"
          /\ stages = StageOrder
          /\ json_calls = 1
          /\ report_calls = 1
    /\ pc = "Failed" =>
          /\ response.status = "error"
          /\ response.status_code \in {400, 413, 422, 500}
          /\ stages # <<>>

\* C5: the stages run in the fixed order Validate, ReadFiles, ExtractPerFile,
\* Combine, StructuringCall, RepairParse, Calculate, ReportingCall,
\* PostProcess, Respond; the reporting call is issued only after the
\* structuring call returned, its output parsed and the calculation returned;
\* each LLM call is issued at most once; after a fatal failure no stage runs
\* and no success response is produced.
C5_SequentialStages ==
    /\ []C5_StateInvariant
    /\ [][pc # "Failed" /\ (pc' = "Failed" => response'.status = "error")]_vars

\* the reporting call failed after structuring, parsing and calculation
C5_Witness ==
    /\ pc = "Failed"
    /\ response.detail = "report_generation_failed"
    /\ stages = SubSeq(StageOrder, 1, 8)
    /\ json_calls = 1
    /\ calc_calls = 1
    /\ report_calls = 1

RECURSIVE ExpectedProcessed(_)
\* the filenames of the succeeding files among the first k uploaded
ExpectedProcessed(k) ==
    IF k = 0 THEN <<>>
    ELSE IF Extracts(k) THEN Append(ExpectedProcessed(k - 1), files[k].filename)
    ELSE ExpectedProcessed(k - 1)

\* C6: on a success response files_processed holds one entry per successful
\* extraction, in upload order, also when two uploaded files carry the same
\* filename, and failed_files one entry per failed extraction, in upload order.
C6_FilesProcessedOnePerSuccess ==
    response.status = "success" =>
       /\ response.files_processed = ExpectedProcessed(Len(files))
       /\ response.failed_files = ExpectedFailed(Len(files))

\* ------------------------------------------------------------------------
\* Properties of truncate_text
\* ------------------------------------------------------------------------

\* C7: truncate_text returns (text, False) unchanged when the estimate is
\* within max_tokens; otherwise the flag is True and the estimate of the
\* result is not greater than the estimate of the input.
C7_TruncateNoOpOrNoLonger ==
    tu.pc \in {"once", "twice"} =>
       IF estimate_tokens(tu.text) <= tu.max_tokens
       THEN tu.first = [text |-> tu.text, flag |-> FALSE]
       ELSE /\ tu.first.flag
            /\ estimate_tokens(tu.first.text) <= estimate_tokens(tu.text)

\* C8: truncating the result of truncate_text again at the same budget
\* returns it unchanged with flag False.
C8_TruncateIdempotent ==
    tu.pc = "twice" => tu.second = [text |-> tu.first.text, flag |-> FALSE]

\* C9: after Combine the text sent to the structuring call and the reported
\* tokens_estimated are within max_total_tokens_estimate.
C9_CombinedTextWithinBudget ==
    /\ ("Combine" \in Range(stages) /\ pc # "Failed") =>
          /\ estimate_tokens(combined_text) <= config.max_total_tokens_estimate
          /\ tokens_estimated <= config.max_total_tokens_estimate
    /\ response.status = "success" =>
          response.tokens_estimated <= config.max_total_tokens_estimate

\* ------------------------------------------------------------------------
\* Properties of parse_llm_json
\* ------------------------------------------------------------------------

\* the required keys the built reply lacks
ChosenMissing == {SectionOrder[i] : i \in {j \in 1..3 : pj.choice[j] = Absent}}

\* C10: a reply whose top-level object lacks a required key fails with the
\* missing-keys ExtractionError, whose message lists the absent keys and only
\* those, sorted, whatever the types of the sections that are present.
C10_MissingKeysListedSorted ==
    pj.pc = "parsed" =>
       IF ChosenMissing # {}
       THEN /\ ~pj.result.ok
            /\ pj.result.error = "missing_keys"
            /\ pj.result.msg =
                  JoinWith(SelectSeq(<<K_balance_end, K_balance_start, K_income_current>>,
                                     LAMBDA k : k \in ChosenMissing),
                           <<",", " ">>)
       ELSE pj.result.error # "missing_keys"

\* balance_start and income_current are absent and balance_end is a string
C10_Witness ==
    /\ pj.pc = "parsed"
    /\ pj.choice[1] = Absent
    /\ pj.choice[2] = S_str
    /\ pj.choice[3] = Absent
    /\ pj.wrap = "prose"
    /\ pj.result.error = "missing_keys"

\* ------------------------------------------------------------------------
\* parse_llm_json applied to a well-formed dataset object, bare and wrapped
\* in a fence or in prose
\* ------------------------------------------------------------------------

\* the company_name values of the dataset: a plain name, a name holding an
\* opening brace, a name holding a closing brace
CompanyTexts == {Quoted(<<"A", "B">>), Quoted(<<"{">>), Quoted(<<"a", "}">>)}

\* the three sections of a well-formed dataset are objects
DatasetSections == [1..3 -> {S_empty, S_values}]

Wrappings == {"fence_json", "fence", "prose", "lead", "trail"}

\* the dataset object text: company_name (when present), then the sections
DatasetText(company, choice) ==
    <<"{">>
    \o JoinWith((IF company = Absent THEN <<>>
                 ELSE <<Quoted(K_company_name) \o <<":">> \o company>>)
                \o MemberTexts(choice, <<1, 2, 3>>), <<",">>)
    \o <<"}">>

\* the reply: the object in a fence, or with prose before and/or after it
WrapReply(text, wrap) ==
    IF wrap = "lead" THEN <<"D", "a", "t", "a", ":", " ">> \o text
    ELSE IF wrap = "trail" THEN text \o <<"\n", "o", "k", ".">>
    ELSE Wrapped(text, wrap)

WrapInit ==
    /\ HandlerOff
    /\ tu = NoHarness
    /\ pj \in [pc : {"object"}, company : CompanyTexts \cup {Absent},
               choice : DatasetSections, wrap : Wrappings,
               bare : {NoParse}, result : {NoParse}]

\* parse_llm_json(J)
ParseBare ==
    /\ pj.pc = "object"
    /\ pj' = [pj EXCEPT !.pc = "bare",
                        !.bare = parse_llm_json(DatasetText(pj.company, pj.choice))]
    /\ UNCHANGED <<pipeline_vars, tu>>

\* parse_llm_json(the wrapped J)
ParseWrapped ==
    /\ pj.pc = "bare"
    /\ pj' = [pj EXCEPT !.pc = "wrapped",
                        !.result = parse_llm_json(WrapReply(DatasetText(pj.company, pj.choice),
                                                            pj.wrap))]
    /\ UNCHANGED <<pipeline_vars, tu>>

WrapNext == ParseBare \/ ParseWrapped

WrapSpec == WrapInit /\ [][WrapNext]_vars

\* C11: a well-formed dataset object wrapped in a fence (tagged json or not)
\* or surrounded by leading and/or trailing prose parses to exactly the
\* dataset the bare object parses to.
C11_WrappedParsesAsBare ==
    pj.pc = "wrapped" /\ pj.bare.ok => pj.result = pj.bare

\* ------------------------------------------------------------------------
\* Section normalization (_normalize_section, _to_float) of a dataset whose
\* balance_start section holds one code with a chosen value
\* ------------------------------------------------------------------------

\* longest generated value string
MaxValueLen == 3

ValueChars == {"1", "0", ",", "-", "(", ")", " ", "\n"}

\* value strings a reply is known to hold
NamedValues ==
    {<<"n", "u", "l", "l">>, <<"N", "U", "L", "L">>, <<"N", "u", "l", "l">>,
     <<"n", "o", "n", "e">>, <<"N", "o", "n", "e">>, <<"N", "O", "N", "E">>,
     <<" ", "-", " ">>, <<"a", "b", "c">>, <<"7", "3", "2", ",", "8">>,
     <<"1", "2", ".", "5", ".", "1">>, <<"(", "1", "2", "3", ".", "4", ")">>,
     <<"1", " ", "0", "0", "0", ",", "5">>, <<"(", "n", "u", "l", "l", ")">>}

ValueStrings == SeqsUpTo(ValueChars, MaxValueLen) \cup NamedValues

\* the values json.loads can deliver for a code
SectionValues ==
    {JStr(x) : x \in ValueStrings}
    \cup {JNone, JList(<<>>), JDict(<<>>), JBool(TRUE), JInt(Zero),
          JFloat([neg |-> TRUE, mant |-> 15, scale |-> 1])}

Code1000 == <<"1", "0", "0", "0">>

Code2000 == <<"2", "0", "0", "0">>

\* the key as the reply writes it: the bare code, the code with the
\* row-marker prefix, the code between spaces, and keys that are no code
\* (the prefix alone, a name, the empty string)
CodeKeys ==
    {Code1000, <<CyrEr, ".">> \o Code1000, <<" ">> \o Code1000 \o <<" ">>,
     <<CyrEr, ".">>, <<"x", "1">>, <<>>}

\* the parsed top-level dict: balance_start holds the code with the value
\* and a second code, the other two sections are empty
DatasetWith(key, val) ==
    <<[key |-> K_balance_start,
       val |-> JDict(<<[key |-> key, val |-> val],
                       [key |-> Code2000, val |-> JStr(<<"7">>)]>>)],
      [key |-> K_balance_end, val |-> JDict(<<>>)],
      [key |-> K_income_current, val |-> JDict(<<>>)]>>

\* "(" + x + ")"
Parenthesized(val) == JStr(<<"(">> \o val.str \o <<")">>)

SectionInit ==
    /\ HandlerOff
    /\ tu = NoHarness
    /\ pj \in [pc : {"value"}, key : CodeKeys, val : SectionValues,
               plain : {NoParse}, paren : {NoParse}]

\* steps 3 to 5 of parse_llm_json on the dataset holding the value
NormalizeValue ==
    /\ pj.pc = "value"
    /\ pj' = [pj EXCEPT !.pc = "plain",
                        !.plain = ValidateAndNormalize(DatasetWith(pj.key, pj.val))]
    /\ UNCHANGED <<pipeline_vars, tu>>

\* the same on the dataset holding the string value in parentheses
NormalizeParenthesized ==
    /\ pj.pc = "plain"
    /\ pj.val.type = "str"
    /\ pj' = [pj EXCEPT !.pc = "paren",
                        !.paren = ValidateAndNormalize(DatasetWith(pj.key,
                                                                   Parenthesized(pj.val)))]
    /\ UNCHANGED <<pipeline_vars, tu>>

SectionNext == NormalizeValue \/ NormalizeParenthesized

SectionSpec == SectionInit /\ [][SectionNext]_vars

\* ------------------------------------------------------------------------
\* Properties of section normalization
\* ------------------------------------------------------------------------

\* the normalized balance_start map of a parse result
SectionMap(result) == DictGet(result.data, K_balance_start, JDict(<<>>)).members

\* the value is a no-value token: JSON null, or a string that trims to the
\* empty string, "-", "null" or "none" in any letter case
IsNoValueToken(val) ==
    \/ val.type = "NoneType"
    \/ /\ val.type = "str"
       /\ \/ Strip(val.str) \in {<<>>, <<"-">>}
          \/ lower(Strip(val.str)) \in {<<"n", "u", "l", "l">>, <<"n", "o", "n", "e">>}

\* a string value without any digit, a list or an object cannot be converted
Unconvertible(val) ==
    \/ val.type \in {"list", "dict"}
    \/ val.type = "str" /\ \A i \in DOMAIN val.str : val.str[i] \notin DigitSet

\* the parse never fails on the value; a no-value token or an unconvertible
\* value leaves its code out of the map; a code mapped to zero had a value
\* that holds the digit 0; the second code of the section is kept
AbsentNotZero ==
    /\ pj.plain.ok
    /\ pj.pc = "paren" => pj.paren.ok
    /\ IsNoValueToken(pj.val) \/ Unconvertible(pj.val)
          => ~DictHas(SectionMap(pj.plain), Code1000)
    /\ (DictHas(SectionMap(pj.plain), Code1000)
        /\ DictGet(SectionMap(pj.plain), Code1000, JNone).num = Zero)
          => (\/ pj.val.type = "int"
              \/ pj.val.type = "str" /\ \E i \in DOMAIN pj.val.str : pj.val.str[i] = "0")
    /\ DictGet(SectionMap(pj.plain), Code2000, JNone)
          = JFloat([neg |-> FALSE, mant |-> 7, scale |-> 0])

\* "(x)" normalizes to the negation of what x normalizes to, absent if x is
ParenNegates ==
    IF DictHas(SectionMap(pj.plain), Code1000)
    THEN /\ DictHas(SectionMap(pj.paren), Code1000)
         /\ DictGet(SectionMap(pj.paren), Code1000, JNone)
               = JFloat(NegDec(DictGet(SectionMap(pj.plain), Code1000, JNone).num))
    ELSE ~DictHas(SectionMap(pj.paren), Code1000)

\* C12: a no-value token or an unconvertible value leaves its code
\* out of the map and is never mapped to 0.0, the parse does not fail, and
\* every parenthesized value "(x)" normalizes to the negation of the
\* normalization of x (absent if x is absent).
C12_NoValueAbsentParenNegates ==
    pj.pc \in {"plain", "paren"} =>
       /\ AbsentNotZero
       /\ pj.pc = "paren" => ParenNegates

\* the same with the parenthesized rule asked only of values "(x)" whose x
\* holds no line break: this much holds
SectionRuleOnOneLine ==
    pj.pc \in {"plain", "paren"} =>
       /\ AbsentNotZero
       /\ pj.pc = "paren" /\ (\A i \in DOMAIN pj.val.str : pj.val.str[i] # "\n")
             => ParenNegates

\* "(1 000,5)" under the row-marker key normalized to -1000.5, and "(null)"
\* left out
SectionRuleReached ==
    /\ pj.pc = "paren"
    /\ \/ /\ pj.val = JStr(<<"1", " ", "0", "0", "0", ",", "5">>)
          /\ pj.key = <<CyrEr, ".">> \o Code1000
          /\ DictGet(SectionMap(pj.paren), Code1000, JNone)
                = JFloat([neg |-> TRUE, mant |-> 10005, scale |-> 1])
       \/ /\ pj.val = JStr(<<"N", "u", "l", "l">>)
          /\ pj.paren.ok
          /\ ~DictHas(SectionMap(pj.paren), Code1000)
          /\ ~DictHas(SectionMap(pj.plain), Code1000)

\* the parse result is a well-formed dataset: the three sections exist and
\* are maps from non-empty digit-only keys to floats, and company_name and
\* period are present
WellFormedDataset(result) ==
    /\ \A s \in REQUIRED_KEYS :
          /\ DictHas(result.data, s)
          /\ DictGet(result.data, s, JNone).type = "dict"
          /\ \A i \in DOMAIN DictGet(result.data, s, JNone).members :
                LET m == DictGet(result.data, s, JNone).members[i]
                IN /\ m.key # <<>>
                   /\ \A j \in DOMAIN m.key : m.key[j] \in DigitSet
                   /\ m.val.type = "float"
    /\ DictHas(result.data, K_company_name)
    /\ DictHas(result.data, K_period)

\* C13: every dataset a successful parse returns holds balance_start,
\* balance_end and income_current as maps whose keys are non-empty digit-only
\* strings (the row-marker prefix stripped) and whose values are floats,
\* never null, and holds company_name and period.
C13_DatasetWellFormed ==
    /\ pj.pc \in {"plain", "paren"} /\ pj.plain.ok => WellFormedDataset(pj.plain)
    /\ pj.pc = "paren" /\ pj.paren.ok => WellFormedDataset(pj.paren)

\* the key was the row-marker prefix alone and the value an integer: the
\* section keeps only its second code; and a prefixed code with a string
\* value is kept under the bare code
C13_Witness ==
    \/ /\ pj.pc = "plain"
       /\ pj.key = <<CyrEr, ".">>
       /\ pj.val = JInt(Zero)
       /\ pj.plain.ok
       /\ DictKeys(SectionMap(pj.plain)) = <<Code2000>>
    \/ /\ pj.pc = "paren"
       /\ pj.key = <<CyrEr, ".">> \o Code1000
       /\ pj.paren.ok
       /\ DictKeys(SectionMap(pj.paren)) = <<Code1000, Code2000>>

\* ------------------------------------------------------------------------
\* Properties of the structuring call and the repair parse
\* ------------------------------------------------------------------------

\* C14: when the raw text of the structuring call cannot be repaired into a
\* dataset (the empty content of a reasoning-only reply included, which the
\* client returns without raising), the request fails with status 500 whose
\* detail carries raw_response_preview, the first 1000 characters of the raw
\* response, and neither the calculation nor the reporting call is invoked.
C14_ParseFailureIsFatalWithPreview ==
    /\ \A m \in OllamaMessages : m.content = <<>> => _send_ollama_request(m) = <<>>
    /\ "RepairParse" \in Range(stages) /\ ~parse_llm_json(raw_json_response).ok
          => /\ pc = "Failed"
             /\ response.status = "error"
             /\ response.status_code = 500
             /\ response.detail = "parse_failed"
             /\ response.raw_response_preview = Prefix(raw_json_response, 1000)
             /\ calc_calls = 0
             /\ report_calls = 0

\* the same asked only of the replies on which parse_llm_json raises
\* ExtractionError
ExtractionErrorIsFatalWithPreview ==
    "RepairParse" \in Range(stages) /\ ~parse_llm_json(raw_json_response).ok
    /\ parse_llm_json(raw_json_response).error # "overflow_error"
          => /\ pc = "Failed"
             /\ response.status_code = 500
             /\ response.detail = "parse_failed"
             /\ response.raw_response_preview = Prefix(raw_json_response, 1000)
             /\ calc_calls = 0
             /\ report_calls = 0

\* a reply of 1001 characters failed to parse and its preview was cut, and
\* the empty content of a reasoning-only reply failed to parse
ExtractionErrorReached ==
    /\ pc = "Failed"
    /\ response.detail = "parse_failed"
    /\ \/ Len(raw_json_response) = 1001 /\ Len(response.raw_response_preview) = 1000
       \/ raw_json_response = <<>>

\* ------------------------------------------------------------------------
\* app/services/pdf_extractor.py: extract_text_from_pdf, page by page
\* ------------------------------------------------------------------------

MIN_TEXT_LENGTH == 50

\* most pages of a generated document
MaxPages == 3

\* the native text of a page: none, blank, 49 characters, 49 characters
\* inside blanks, 50 characters, 51 characters
PageTexts ==
    {<<>>, Fill(55, " "), Fill(49, "a"),
     <<" ", "\n">> \o Fill(49, "a") \o Fill(9, " "),
     Fill(50, "a"), <<"\n">> \o Fill(51, "a")}

\* what ocr_func returns for a rendered page; it may also raise
OcrTexts == {<<>>, <<"o", "c", "r">>}

\* len(text.strip()) < MIN_TEXT_LENGTH, taking every text of 50 for short
ShortPage_at_most_min(text) == Len(Strip(text)) <= MIN_TEXT_LENGTH

\* len(text.strip()) < MIN_TEXT_LENGTH
ShortPage(text) == Len(Strip(text)) < MIN_TEXT_LENGTH

\* f"--- Page {page_num + 1} ---\n", n being page_num + 1
PageHeader(n) ==
    <<"-", "-", "-", " ", "P", "a", "g", "e", " ">> \o Digits(n)
    \o <<" ", "-", "-", "-", "\n">>

\* lines 33-38: the document is open, nothing is extracted yet
PdfInit ==
    /\ HandlerOff
    /\ pj = NoHarness
    /\ tu \in [pc : {"pages"}, pages : SeqsUpTo(PageTexts, MaxPages),
               page_num : {0}, full_text : {<<>>}, ocr_pages : {0},
               ocr_calls : {<<>>}, result : {<<>>}]

\* lines 40-55: one turn of the loop over the pages
ProcessPage ==
    /\ tu.pc = "pages"
    /\ tu.page_num < Len(tu.pages)
    /\ LET n    == tu.page_num + 1
           text == tu.pages[n]
       IN IF ShortPage(text)
          THEN \/ \E out \in OcrTexts :
                     tu' = [tu EXCEPT
                              !.page_num = n,
                              !.ocr_calls = Append(@, [page |-> n, raised |-> FALSE,
                                                       out |-> out]),
                              !.ocr_pages = @ + 1,
                              !.full_text = Append(@, PageHeader(n) \o out)]
               \/ \* ocr_func raises: the exception leaves the function
                  tu' = [tu EXCEPT
                           !.pc = "raised",
                           !.ocr_calls = Append(@, [page |-> n, raised |-> TRUE,
                                                    out |-> <<>>])]
          ELSE tu' = [tu EXCEPT !.page_num = n,
                                !.full_text = Append(@, PageHeader(n) \o text)]
    /\ UNCHANGED <<pipeline_vars, pj>>

\* lines 57-62: close the document and join the pages
JoinPages ==
    /\ tu.pc = "pages"
    /\ tu.page_num = Len(tu.pages)
    /\ tu' = [tu EXCEPT !.pc = "returned",
                        !.result = JoinWith(tu.full_text, <<"\n", "\n">>)]
    /\ UNCHANGED <<pipeline_vars, pj>>

PdfNext == ProcessPage \/ JoinPages

PdfSpec == PdfInit /\ [][PdfNext]_vars

\* ------------------------------------------------------------------------
\* Properties of extract_text_from_pdf
\* ------------------------------------------------------------------------

\* the trimmed native text of page p has fewer than 50 characters
FewerThan50(p) ==
    LET t == tu.pages[p]
        kept == {i \in DOMAIN t : t[i] \notin {" ", "\n"}}
    IN IF kept = {} THEN TRUE
       ELSE MaxOf(kept) - MinOf(kept) + 1 < 50

\* the pages looked at so far: those emitted, and the one whose OCR raised
PagesSeen == IF tu.pc = "raised" THEN tu.page_num + 1 ELSE tu.page_num

\* C15: pages are processed in document order; OCR is invoked for a page
\* exactly when its trimmed native text has fewer than 50 characters, once
\* and for that page only, its result replacing the native text; ocr_pages
\* counts the pages OCR returned for; each page's text stands under its own
\* Page n header, in page order.
C15_OcrOnlyForShortPages ==
    /\ [i \in DOMAIN tu.ocr_calls |-> tu.ocr_calls[i].page]
          = SelectSeq([p \in 1..PagesSeen |-> p], LAMBDA p : FewerThan50(p))
    /\ tu.ocr_pages = Cardinality({p \in 1..tu.page_num : FewerThan50(p)})
    /\ Len(tu.full_text) = tu.page_num
    /\ \A p \in 1..tu.page_num :
          tu.full_text[p] =
             PageHeader(p)
             \o (IF FewerThan50(p)
                 THEN tu.ocr_calls[CHOOSE i \in DOMAIN tu.ocr_calls :
                                      tu.ocr_calls[i].page = p].out
                 ELSE tu.pages[p])
    /\ tu.pc = "returned" =>
          /\ tu.page_num = Len(tu.pages)
          /\ tu.result = JoinWith(tu.full_text, <<"\n", "\n">>)

\* a document of three pages, 50 characters, then 49 inside blanks, then 51:
\* OCR ran for the second page only
C15_Witness ==
    /\ tu.pc = "returned"
    /\ Len(tu.pages) = 3
    /\ tu.pages[1] = Fill(50, "a")
    /\ tu.pages[2] = <<" ", "\n">> \o Fill(49, "a") \o Fill(9, " ")
    /\ [i \in DOMAIN tu.ocr_calls |-> tu.ocr_calls[i].page] = <<2>>
    /\ tu.ocr_pages = 1

\* ------------------------------------------------------------------------
\* app/services/image_extractor.py and the lifespan of app/main.py: the
\* process-wide OCR engine, its initialization at startup and the requests
\* that use it
\* ------------------------------------------------------------------------

\* concurrent invocations of the OCR capability
MaxRequests == 2

Requests == 1..MaxRequests

\* who invokes ocr_from_bytes: the image extractor, the PDF fallback for a
\* short page, or a direct caller
OcrCallers == {"extract_text_from_image", "pdf_fallback", "ocr_from_bytes"}

\* _ocr_engine: None, or the PaddleOCR object
NoEngine == "None"

TheEngine == "PaddleOCR"

IdleRequest == [pc |-> "idle", caller |-> "none", engine |-> NoEngine]

\* a request-time initialization of the engine on first use
EngineAfterGet_lazy_init(engine) == TheEngine

\* get_ocr_engine reads the global and does not assign it
EngineAfterGet(engine) == engine

\* line 19: the module is loaded, _ocr_engine is None.  The lifespan runs
\* before any request is served; without it (the functions used outside the
\* application) the engine is never initialized.
OcrInit ==
    /\ HandlerOff
    /\ tu = NoHarness
    /\ pj \in [phase : {"startup", "no_lifespan"}, _ocr_engine : {NoEngine},
               writes : {0}, req : {[r \in Requests |-> IdleRequest]}]

\* main.py lines 31-36 with init_ocr_engine: the constructor returns and the
\* global is assigned, or it raises, the lifespan logs it and goes on
init_ocr_engine ==
    /\ pj.phase = "startup"
    /\ \/ pj' = [pj EXCEPT !.phase = "serving", !._ocr_engine = TheEngine,
                           !.writes = @ + 1]
       \/ pj' = [pj EXCEPT !.phase = "serving"]
    /\ UNCHANGED <<pipeline_vars, tu>>

\* a request reaches ocr_from_bytes
InvokeOcr(r) ==
    /\ pj.phase \in {"serving", "no_lifespan"}
    /\ pj.req[r].pc = "idle"
    /\ \E c \in OcrCallers :
          pj' = [pj EXCEPT !.req[r] = [pc |-> "get_engine", caller |-> c,
                                       engine |-> NoEngine]]
    /\ UNCHANGED <<pipeline_vars, tu>>

\* line 53 with get_ocr_engine (lines 37-41)
get_ocr_engine(r) ==
    /\ pj.req[r].pc = "get_engine"
    /\ IF pj._ocr_engine = NoEngine
       THEN pj' = [pj EXCEPT !.req[r].pc = "raised",
                             !._ocr_engine = EngineAfterGet(@)]
       ELSE pj' = [pj EXCEPT !.req[r].pc = "predict",
                             !.req[r].engine = pj._ocr_engine,
                             !._ocr_engine = EngineAfterGet(@)]
    /\ UNCHANGED <<pipeline_vars, tu>>

\* lines 54-66: decode the image and run engine.predict; either may raise
predict(r) ==
    /\ pj.req[r].pc = "predict"
    /\ \/ pj' = [pj EXCEPT !.req[r].pc = "returned"]
       \/ pj' = [pj EXCEPT !.req[r].pc = "raised"]
    /\ UNCHANGED <<pipeline_vars, tu>>

OcrNext ==
    \/ init_ocr_engine
    \/ \E r \in Requests : InvokeOcr(r)
    \/ \E r \in Requests : get_ocr_engine(r)
    \/ \E r \in Requests : predict(r)

OcrSpec == OcrInit /\ [][OcrNext]_vars

\* ------------------------------------------------------------------------
\* Properties of the OCR engine
\* ------------------------------------------------------------------------

\* no invocation gets past get_ocr_engine or returns text while the engine
\* is uninitialized, and the engine is assigned at most once
C16_StateInvariant ==
    /\ pj.writes <= 1
    /\ pj.phase = "startup" => \A r \in Requests : pj.req[r].pc = "idle"
    /\ \A r \in Requests :
          pj.req[r].pc \in {"predict", "returned"} =>
             /\ pj._ocr_engine = "PaddleOCR"
             /\ pj.req[r].engine = "PaddleOCR"

\* C16: the process-wide engine reference is written only by init_ocr_engine
\* at startup and by no request-time operation, whatever the interleaving of
\* the requests; an invocation of the OCR capability while the engine is
\* uninitialized (never initialized, or its initialization failed at
\* startup) raises instead of returning text.
C16_EngineWrittenOnlyAtStartup ==
    /\ []C16_StateInvariant
    /\ [][/\ pj._ocr_engine' # pj._ocr_engine
             => pj.phase = "startup" /\ pj.req' = pj.req
          /\ \A r \in Requests :
                /\ pj.req[r].pc = "get_engine"
                /\ pj.req'[r].pc # "get_engine"
                /\ pj._ocr_engine = "None"
                => pj.req'[r].pc = "raised"]_vars

\* the initialization failed at startup and both requests, one from the
\* image extractor and one from the PDF fallback, raised
C16_Witness ==
    /\ pj.phase = "serving"
    /\ pj._ocr_engine = "None"
    /\ pj.req[1].pc = "raised" /\ pj.req[1].caller = "extract_text_from_image"
    /\ pj.req[2].pc = "raised" /\ pj.req[2].caller = "pdf_fallback"

\* ------------------------------------------------------------------------
\* app/utils/text_utils.py: clean_text applied to a text, then to its result
\* ------------------------------------------------------------------------

\* longest text cleaned
MaxCleanLen == 5

CleanChars == {"a", " ", "\t", "\r", "\n"}

CleanInit ==
    /\ HandlerOff
    /\ pj = NoHarness
    /\ tu \in [pc : {"raw"}, text : SeqsUpTo(CleanChars, MaxCleanLen),
               once : {<<>>}, twice : {<<>>}]

\* extractor.py lines 60-62: cleaned = clean_text(raw_text)
CleanOnce ==
    /\ tu.pc = "raw"
    /\ tu' = [tu EXCEPT !.pc = "cleaned", !.once = clean_text(tu.text)]
    /\ UNCHANGED <<pipeline_vars, pj>>

\* clean_text on the cleaned text
CleanAgain ==
    /\ tu.pc = "cleaned"
    /\ tu' = [tu EXCEPT !.pc = "recleaned", !.twice = clean_text(tu.once)]
    /\ UNCHANGED <<pipeline_vars, pj>>

CleanNext == CleanOnce \/ CleanAgain

CleanSpec == CleanInit /\ [][CleanNext]_vars

\* ------------------------------------------------------------------------
\* Properties of clean_text
\* ------------------------------------------------------------------------

\* C17: clean_text is idempotent, and its output holds no run of two or more
\* horizontal whitespace characters, no run of three or more newlines, and
\* no whitespace at its start or end.
C17_CleanTextIdempotent ==
    /\ tu.pc = "recleaned" => tu.twice = tu.once
    /\ tu.pc \in {"cleaned", "recleaned"} =>
          /\ \A i \in 1..(Len(tu.once) - 1) :
                ~(tu.once[i] \in {" ", "\t", "\r"} /\ tu.once[i + 1] \in {" ", "\t", "\r"})
          /\ \A i \in 1..(Len(tu.once) - 2) :
                ~(tu.once[i] = "\n" /\ tu.once[i + 1] = "\n" /\ tu.once[i + 2] = "\n")
          /\ tu.once # <<>> =>
                /\ tu.once[1] \notin {" ", "\t", "\r", "\n"}
                /\ tu.once[Len(tu.once)] \notin {" ", "\t", "\r", "\n"}

\* a run of blanks and a run of three newlines were collapsed and the
\* trailing blank removed, and cleaning the result again changed nothing
C17_Witness ==
    /\ tu.pc = "recleaned"
    /\ \/ tu.text = <<"a", "\n", "\n", "\n", "a">> /\ tu.once = <<"a", "\n", "\n", "a">>
       \/ tu.text = <<"a", "\t", "\r", "a", " ">> /\ tu.once = <<"a", " ", "a">>
    /\ tu.twice = tu.once

\* ------------------------------------------------------------------------
\* app/utils/text_utils.py: estimate_tokens applied to two texts
\* ------------------------------------------------------------------------

\* longest text estimated
MaxEstimateLen == 15

EstimateTexts == {Fill(n, "a") : n \in 0..MaxEstimateLen} \cup {<<"\n">>, <<" ", "b">>}

EstimateInit ==
    /\ HandlerOff
    /\ pj = NoHarness
    /\ tu \in [pc : {"texts"}, a : EstimateTexts, b : EstimateTexts,
               tokens_a : {0}, tokens_b : {0}]

EstimateFirst ==
    /\ tu.pc = "texts"
    /\ tu' = [tu EXCEPT !.pc = "first", !.tokens_a = estimate_tokens(tu.a)]
    /\ UNCHANGED <<pipeline_vars, pj>>

EstimateSecond ==
    /\ tu.pc = "first"
    /\ tu' = [tu EXCEPT !.pc = "both", !.tokens_b = estimate_tokens(tu.b)]
    /\ UNCHANGED <<pipeline_vars, pj>>

EstimateNext == EstimateFirst \/ EstimateSecond

EstimateSpec == EstimateInit /\ [][EstimateNext]_vars

\* ------------------------------------------------------------------------
\* Properties of estimate_tokens
\* ------------------------------------------------------------------------

\* C18: estimate_tokens is 0 for the empty text and floor(len(text) / 3.5)
\* otherwise, and it never decreases when the text gets longer.
C18_EstimateFloorMonotonic ==
    /\ tu.pc \in {"first", "both"} =>
          /\ tu.a = <<>> => tu.tokens_a = 0
          /\ 7 * tu.tokens_a <= 2 * Len(tu.a)
          /\ 2 * Len(tu.a) < 7 * (tu.tokens_a + 1)
    /\ tu.pc = "both" =>
          /\ 7 * tu.tokens_b <= 2 * Len(tu.b)
          /\ 2 * Len(tu.b) < 7 * (tu.tokens_b + 1)
          /\ Len(tu.a) <= Len(tu.b) => tu.tokens_a <= tu.tokens_b

\* 6 characters give 1 token and 7 characters give 2
C18_Witness ==
    /\ tu.pc = "both"
    /\ Len(tu.a) = 6 /\ tu.tokens_a = 1
    /\ Len(tu.b) = 7 /\ tu.tokens_b = 2

\* ------------------------------------------------------------------------
\* app/utils/text_utils.py: truncate_text on over-budget texts whose
\* newlines stand around 80% of the target length
\* ------------------------------------------------------------------------

\* 0-based indices a newline may stand at
NewlineIndices == 5..10

\* the text of n characters with newlines at the 0-based indices in at
TextWithNewlines(n, at) == [i \in 1..n |-> IF (i - 1) \in at THEN "\n" ELSE "a"]

BackoffInit ==
    /\ HandlerOff
    /\ pj = NoHarness
    /\ tu \in [pc : {"over"},
               text : {TextWithNewlines(n, at) : n \in {14, 15},
                                                at \in SUBSET NewlineIndices},
               max_tokens : {2, 3}, result : {NoResult}]

Truncate ==
    /\ tu.pc = "over"
    /\ tu' = [tu EXCEPT !.pc = "cut", !.result = truncate_text(tu.text, tu.max_tokens)]
    /\ UNCHANGED <<pipeline_vars, pj>>

BackoffNext == Truncate

BackoffSpec == BackoffInit /\ [][BackoffNext]_vars

\* ------------------------------------------------------------------------
\* Properties of the cut of truncate_text
\* ------------------------------------------------------------------------

\* floor(max_tokens * 3.5)
TargetOf(max_tokens) == (7 * max_tokens) \div 2

\* the 0-based indices of the newlines of the first target characters that
\* stand at or after 80% of the target
LateNewlines ==
    {i \in 0..(TargetOf(tu.max_tokens) - 1) :
        /\ i < Len(tu.text)
        /\ tu.text[i + 1] = "\n"
        /\ 5 * i >= 4 * TargetOf(tu.max_tokens)}

\* what the result holds before the notice
KeptText == SubSeq(tu.result.text, 1,
                   Len(tu.result.text)
                   - Len(TruncationNotice(estimate_tokens(tu.text), tu.max_tokens)))

\* C19 as stated: an over-budget text is cut to target = floor(max_tokens *
\* 3.5) characters; when the slice holds a newline at an index at or after
\* 80% of the target (index >= 0.8 * target) the kept text ends just before
\* the last newline of the slice, and the full slice is kept only when there
\* is no newline at or after that position.
C19_BacksOffAtOrAfter80 ==
    tu.pc = "cut" =>
       /\ tu.result.flag
       /\ IF LateNewlines # {}
          THEN KeptText = SubSeq(tu.text, 1, MaxOf(LateNewlines))
          ELSE KeptText = SubSeq(tu.text, 1, TargetOf(tu.max_tokens))

\* C19: an over-budget text is cut to target = floor(max_tokens * 3.5)
\* characters; when the slice holds a newline at an index after 80% of the
\* target (index > 0.8 * target) the kept text ends just before the last
\* newline of the slice, and the full slice is kept when there is no newline
\* after that position, a newline at exactly 80% of the target included.
C19_BacksOffAfter80 ==
    tu.pc = "cut" =>
       /\ tu.result.flag
       /\ LET after == {i \in LateNewlines : 5 * i > 4 * TargetOf(tu.max_tokens)}
          IN IF after # {}
             THEN KeptText = SubSeq(tu.text, 1, MaxOf(after))
             ELSE KeptText = SubSeq(tu.text, 1, TargetOf(tu.max_tokens))

\* target 10 and the only late newline at index 8, exactly 80% of the
\* target: the full slice of ten characters is kept
C19_Witness ==
    /\ tu.pc = "cut"
    /\ tu.max_tokens = 3
    /\ LateNewlines = {8}
    /\ KeptText = SubSeq(tu.text, 1, 10)

\* ------------------------------------------------------------------------
\* app/services/extractor.py: is_allowed_extension and the dispatch of
\* extract_text on the same filename
\* ------------------------------------------------------------------------

\* longest generated filename
MaxNameLen == 4

NameChars == {".", "p", "d", "f", "F"}

NamedFilenames ==
    {<<"a", ".", "p", "d", "f">>,
     <<"a", ".", "P", "D", "F">>,
     <<"r", ".", "P", "d", "f">>,
     <<"s", ".", "p", "n", "g">>,
     <<"s", ".", "P", "N", "G">>,
     <<"p", ".", "j", "p", "g">>,
     <<"p", ".", "J", "P", "G">>,
     <<"p", ".", "j", "p", "e", "g">>,
     <<"p", ".", "J", "p", "E", "g">>,
     <<"t", ".", "x", "l", "s", "x">>,
     <<"t", ".", "X", "L", "S", "X">>,
     <<"w", ".", "d", "o", "c", "x">>,
     <<"w", ".", "D", "O", "C", "X">>,
     <<"n", ".", "t", "x", "t">>,
     <<"w", ".", "d", "o", "c">>,
     <<"t", ".", "x", "l", "s">>,
     <<"a", ".", "p", "d", "f", "x">>,
     <<"a", "p", "d", "f">>,
     <<"p", "d", "f">>,
     <<"a", ".", "p", "d", "f", ".">>,
     <<"a", ".", "p", "d", "f", " ">>,
     <<"a", ".", "t", "a", "r", ".", "g", "z">>,
     <<"a", ".", "b", ".", "p", "d", "f">>,
     <<".", "d", "o", "c", "x">>,
     <<"a", ".", "j", "p", "e">>,
     <<"a", ".", "e", "x", "e">>,
     <<"a", ".", "p", "d", "f", ".", "e", "x", "e">>,
     <<"a", ".", "p", "n", "g", ".", "t", "x", "t">>,
     <<"a", ".">>,
     <<" ", ".", "p", "d", "f">>}

DispatchNames == SeqsUpTo(NameChars, MaxNameLen) \cup NamedFilenames

NoDispatch == [ok |-> FALSE, text |-> <<>>, error |-> "not_run"]

DispatchInit ==
    /\ HandlerOff
    /\ tu = NoHarness
    /\ pj \in [pc : {"name"}, filename : DispatchNames, content : {C_small, C_bad},
               allowed : {FALSE}, out : {NoDispatch}]

\* analyze.py lines 93-94: is_allowed_extension(f.filename or "")
CheckAllowed ==
    /\ pj.pc = "name"
    /\ pj' = [pj EXCEPT !.pc = "validated",
                        !.allowed = is_allowed_extension(pj.filename)]
    /\ UNCHANGED <<pipeline_vars, tu>>

\* analyze.py line 122: extract_text(filename, content)
Dispatch ==
    /\ pj.pc = "validated"
    /\ pj' = [pj EXCEPT !.pc = "dispatched",
                        !.out = extract_text(pj.filename, pj.content)]
    /\ UNCHANGED <<pipeline_vars, tu>>

DispatchNext == CheckAllowed \/ Dispatch

DispatchSpec == DispatchInit /\ [][DispatchNext]_vars

\* ------------------------------------------------------------------------
\* Properties of validation and dispatch
\* ------------------------------------------------------------------------

\* the filename ends, from its last dot on, in one of the six supported
\* extensions in some letter case
EndsInSupportedExtension(name) ==
    \E k \in DOMAIN name :
       /\ name[k] = "."
       /\ \A j \in (k + 1)..Len(name) : name[j] # "."
       /\ lower(SubSeq(name, k, Len(name)))
             \in { <<".", "p", "d", "f">>, <<".", "p", "n", "g">>,
                   <<".", "j", "p", "g">>, <<".", "j", "p", "e", "g">>,
                   <<".", "x", "l", "s", "x">>, <<".", "d", "o", "c", "x">> }

\* C20: validation and dispatch agree on the allowed set: is_allowed_extension
\* is true of a filename exactly when extract_text dispatches it to one of
\* the four extractors by the case-insensitive text from its last dot, so a
\* validated file never fails with the unsupported-extension error, and a
\* filename without a dot or with another extension fails validation.
C20_ValidationAgreesWithDispatch ==
    /\ pj.pc \in {"validated", "dispatched"} =>
          pj.allowed = EndsInSupportedExtension(pj.filename)
    /\ pj.pc = "dispatched" =>
          /\ pj.allowed <=> pj.out.error # "Unsupported file extension"
          /\ pj.allowed => pj.out.ok = pj.content.ok
          /\ ~pj.allowed => ~pj.out.ok

\* "a.b.pdf" and "p.JpEg" were allowed and extracted, "a.pdf.exe" and "pdf"
\* were not allowed and not dispatched
C20_Witness ==
    /\ pj.pc = "dispatched"
    /\ \/ /\ pj.filename \in {<<"a", ".", "b", ".", "p", "d", "f">>,
                              <<"p", ".", "J", "p", "E", "g">>}
          /\ pj.allowed /\ pj.out.ok
       \/ /\ pj.filename \in {<<"a", ".", "p", "d", "f", ".", "e", "x", "e">>,
                              <<"p", "d", "f">>}
          /\ ~pj.allowed /\ pj.out.error = "Unsupported file extension"

\* ------------------------------------------------------------------------
\* Properties of the success response
\* ------------------------------------------------------------------------

\* C21: in every success response the warning is present exactly when the
\* token estimate of the combined text exceeded max_total_tokens_estimate
\* (and the text was therefore truncated), and failed_files is present
\* exactly when at least one per-file extraction failed, holding exactly
\* those failures in upload order; a partial failure leaves the status at
\* success.
C21_OptionalFieldsReflectOutcome ==
    response.status = "success" =>
       /\ response.status_code = 200
       /\ response.has_warning
             <=> estimate_tokens(combine_extracted_texts(file_texts))
                    > config.max_total_tokens_estimate
       /\ response.has_warning <=> was_truncated
       /\ response.has_failed_files <=> \E i \in DOMAIN files : ~Extracts(i)
       /\ response.has_failed_files =>
             /\ response.failed_files = ExpectedFailed(Len(file_data))
             /\ Len(response.failed_files)
                   = Cardinality({i \in DOMAIN files : ~Extracts(i)})
       /\ ~response.has_failed_files => failed_files = <<>>

\* a success response that carries both the warning and failed_files: one
\* file of three failed and the texts of the other two were over the budget
C21_Witness ==
    /\ response.status = "success"
    /\ response.has_warning
    /\ response.has_failed_files
    /\ Len(response.failed_files) = 1
    /\ Len(files) = 3

====
